---- MODULE Spec2Model ----
(***************************************************************************)
(* Event ingestion, rule routing and action execution of substrate         *)
(* (src/substrate/domains/events), as a state machine over the events,     *)
(* rules and actions tables; and the worker around it                      *)
(* (src/substrate/core/worker, src/substrate/integrations/resend): the     *)
(* scheduler tasks, their spawning and the task registry.                  *)
(*                                                                         *)
(* Values.  A Python str is a sequence of one-character tokens.  None is   *)
(* the sequence <<"None">>, True/False are <<"True">>/<<"False">>: every   *)
(* condition value and every event field is a token sequence, so that      *)
(* they can share sets and records.                                        *)
(***************************************************************************)
EXTENDS Integers, Sequences, FiniteSets, TLC

VARIABLES
    events,      \* events.events: id -> row
    rules,       \* events.rules: id -> row
    actions,     \* events.actions (the ActionLog): sequence of rows, id = index
    calls,       \* the process_event / reprocess_event calls in flight
    started,     \* number of process_event / reprocess_event calls made so far
    notes,       \* notes.notes: the file paths taken (unique)
    queue,       \* tasks spawned on the "default" queue by spawn_task
    lastPayload, \* history: payload of the latest create_event per key
    fnIn,        \* input of the pure function under study
    fnOut,       \* its result
    absurd,      \* absurd.t_<queue>: the task rows of each existing queue
    spawns,      \* the spawn_all_schedulers runs of the worker processes
    sched,       \* the resend.scheduler task: its checkpoints and its run
    _tasks,      \* registry.py _tasks: task name -> handler
    boot,        \* main.py main(): imported modules, main thread, worker lanes
    batch        \* the events.process_pending task: its batch and its counters

workerVars == <<absurd, spawns, sched, _tasks, boot, batch>>

vars ==
    <<events, rules, actions, calls, started, notes, queue, lastPayload, fnIn, fnOut,
      workerVars>>

-----------------------------------------------------------------------------
(* Python values *)

None == <<"None">>
PyTrue == <<"True">>
PyFalse == <<"False">>

\* `not x` for a str-or-None x
Falsy(x) == x = None \/ x = <<>> \/ x = PyFalse

\* str.lower() on one character
LowerChar(c) ==
    CASE c = "A" -> "a"
      [] c = "S" -> "s"
      [] c = "H" -> "h"
      [] OTHER -> c

\* str.lower()
Lower(s) == [i \in 1..Len(s) |-> LowerChar(s[i])]

\* `sub in text` for two str
IsSubstring(sub, text) ==
    \E i \in 0..(Len(text) - Len(sub)) :
        \A j \in 1..Len(sub) : text[i + j] = sub[j]

-----------------------------------------------------------------------------
(* re.search(pattern, text, re.IGNORECASE).  A pattern is a sequence of    *)
(* literal characters and of the tokens ".", "(" and "{4294967296}".  The  *)
(* parser reads left to right: an unbalanced "(" raises re.error, a        *)
(* repetition count of 2^32 or more raises OverflowError.                  *)

ReErrorTok == "("
OverflowTok == "{4294967296}"

RECURSIVE re_compile(_)
re_compile(pattern) ==
    IF pattern = <<>> THEN "ok"
    ELSE IF Head(pattern) = ReErrorTok THEN "re.error"
    ELSE IF Head(pattern) = OverflowTok THEN "OverflowError"
    ELSE re_compile(Tail(pattern))

re_match_at(pattern, text, i) ==
    \A j \in 1..Len(pattern) :
        pattern[j] = "." \/ LowerChar(pattern[j]) = LowerChar(text[i + j])

\* "true", "false" or the name of the exception raised
re_search(pattern, text) ==
    IF re_compile(pattern) # "ok" THEN re_compile(pattern)
    ELSE IF \E i \in 0..(Len(text) - Len(pattern)) : re_match_at(pattern, text, i)
         THEN "true"
         ELSE "false"

-----------------------------------------------------------------------------
(* logic.py: the matcher.  Results are "true", "false", or the name of the *)
(* exception that propagates to the caller.                                *)

Bool(b) == IF b THEN "true" ELSE "false"

\* fault: a missing text contains everything
_containsBlankTrue(text, substring) ==
    IF Falsy(text) THEN "true"
    ELSE IF Falsy(substring) THEN "false"
    ELSE Bool(IsSubstring(Lower(substring), Lower(text)))

_contains(text, substring) ==
    IF Falsy(text) \/ Falsy(substring) THEN "false"
    ELSE Bool(IsSubstring(Lower(substring), Lower(text)))

_equals(text, value) ==
    IF Falsy(text) \/ Falsy(value) THEN Bool(text = value)
    ELSE Bool(Lower(text) = Lower(value))

_regex_match(text, pattern) ==
    IF Falsy(text) \/ Falsy(pattern) THEN "false"
    ELSE LET r == re_search(pattern, text)
         IN  IF r = "re.error" THEN "false" ELSE r

_check_condition(event, condition_type, value) ==
    CASE condition_type = "from_contains" -> _contains(event.email_from, value)
      [] condition_type = "from_equals" -> _equals(event.email_from, value)
      [] condition_type = "to_contains" -> _contains(event.email_to, value)
      [] condition_type = "to_equals" -> _equals(event.email_to, value)
      [] condition_type = "subject_contains" -> _contains(event.email_subject, value)
      [] condition_type = "subject_equals" -> _equals(event.email_subject, value)
      [] condition_type = "subject_matches" -> _regex_match(event.email_subject, value)
      [] condition_type = "body_contains" -> _contains(event.email_body, value)
      [] condition_type = "has_attachment" ->
            Bool((IF event.payload.attachments # <<>> THEN PyTrue ELSE PyFalse) = value)
      [] condition_type = "event_type_equals" -> Bool(event.event_type = value)
      [] condition_type = "source_equals" -> Bool(event.source = value)
      [] OTHER -> "false"

\* fault: a conditions map without entries matches no event
RECURSIVE every_entry_holds(_, _)
every_entry_holds(event, conditions) ==
    IF conditions = <<>> THEN "true"
    ELSE LET r == _check_condition(event, Head(conditions)[1], Head(conditions)[2])
         IN  IF r = "true" THEN every_entry_holds(event, Tail(conditions))
             ELSE r

matches_conditions_some(event, conditions) ==
    IF conditions = <<>> THEN "false" ELSE every_entry_holds(event, conditions)

\* conditions is the dict in iteration order: a sequence of <<key, value>>
RECURSIVE matches_conditions(_, _)
matches_conditions(event, conditions) ==
    IF conditions = <<>> THEN "true"
    ELSE LET r == _check_condition(event, Head(conditions)[1], Head(conditions)[2])
         IN  IF r = "true" THEN matches_conditions(event, Tail(conditions))
             ELSE r

-----------------------------------------------------------------------------
(* Bounds *)

MaxCallers == 2    \* process_event / reprocess_event calls in flight at once
MaxCalls == 2      \* process_event / reprocess_event calls made in one run
MaxConds == 2      \* entries of a conditions map given to the matcher
MaxRouteRules == 2 \* rules of a table given to route_event

-----------------------------------------------------------------------------
(* Inputs *)

\* action_config maps; an absent key is None
Config(tags, task_name, title_template) ==
    [tags |-> tags, task_name |-> task_name, title_template |-> title_template]

NoConfig == Config(None, None, None)

\* the arguments of create_rule
RuleInput(conditions, action, action_config, priority) ==
    [conditions |-> conditions, action |-> action,
     action_config |-> action_config, priority |-> priority]

TagRule ==
    RuleInput(<< <<"to_contains", <<"s", "@">> >> >>, "tag",
              Config(<<"support">>, None, None), 10)

NoteRule == RuleInput(<< >>, "create_note", NoConfig, 5)

BadTitleRule ==
    RuleInput(<< <<"from_contains", <<"x">> >> >>, "create_note",
              Config(None, None, <<"{sender}">>), 10)

BadRegexRule ==
    RuleInput(<< <<"subject_matches", <<"h", OverflowTok>> >> >>, "ignore",
              NoConfig, 10)

Payloads ==
    { [rev |-> 1, attachments |-> << >>],
      [rev |-> 2, attachments |-> <<"f">>] }

\* (source, source_id): every caller passes a source_id
EventKeys == { <<"resend", "m1">>, <<"manual", "u1">> }

\* the ids process_event and reprocess_event are called with
EventIdArgs == 1..Cardinality(EventKeys)

\* the other arguments of create_event: the email m1, the manual event u1
ContentOf(key) ==
    IF key[1] = "resend"
    THEN [event_type |-> <<"email.received">>, email_from |-> <<"x">>,
          email_to |-> <<"S", "@", "x">>, email_subject |-> <<"H">>,
          email_body |-> << >>, email_date |-> <<"d1">>, owner_id |-> None]
    ELSE [event_type |-> <<"test">>, email_from |-> <<"b">>,
          email_to |-> None, email_subject |-> None, email_body |-> None,
          email_date |-> None, owner_id |-> None]

\* the same pair given to create_event again with every other argument changed
AltContent ==
    [event_type |-> <<"email.bounced">>, email_from |-> <<"y">>,
     email_to |-> <<"t", "@", "y">>, email_subject |-> <<"K">>,
     email_body |-> <<"z">>, email_date |-> <<"d2">>, owner_id |-> <<"u9">>]

-----------------------------------------------------------------------------
(* Rows *)

\* a NULL route_result; an absent key of the JSON object is None
NullRoute ==
    [null |-> TRUE, rule_id |-> 0, action |-> "", action_config |-> NoConfig,
     tags |-> None, tags_added |-> None]

\* the row INSERT adds: status, matched_rule_id, route_result and routed_at
\* are not in the column list and take their defaults
NewEventRow(key, content, payload) ==
    [source |-> <<key[1]>>, source_id |-> key[2],
     event_type |-> content.event_type, payload |-> payload,
     email_from |-> content.email_from, email_to |-> content.email_to,
     email_subject |-> content.email_subject, email_body |-> content.email_body,
     email_date |-> content.email_date, owner_id |-> content.owner_id,
     status |-> "pending", matched_rule_id |-> 0, route_result |-> NullRoute,
     routed_at |-> "NULL"]

KeyOf(row) == <<row.source[1], row.source_id>>

EventIds == 1..Len(events)

\* fault: an INSERT without the ON CONFLICT clause
UpsertAppend(table, key, content, payload) ==
    Append(table, NewEventRow(key, content, payload))

\* fault: on a conflict the row is replaced by the row of the new arguments
UpsertReplace(table, key, content, payload) ==
    IF \E id \in 1..Len(table) : KeyOf(table[id]) = key
    THEN [id \in 1..Len(table) |->
            IF KeyOf(table[id]) = key
            THEN NewEventRow(key, content, payload)
            ELSE table[id]]
    ELSE Append(table, NewEventRow(key, content, payload))

\* ON CONFLICT (source, source_id) DO UPDATE SET payload = EXCLUDED.payload
Upsert(table, key, content, payload) ==
    IF \E id \in 1..Len(table) : KeyOf(table[id]) = key
    THEN [id \in 1..Len(table) |->
            IF KeyOf(table[id]) = key
            THEN [table[id] EXCEPT !.payload = payload]
            ELSE table[id]]
    ELSE Append(table, NewEventRow(key, content, payload))

\* router.py create_event
create_event(key, content, payload) ==
    /\ events' = Upsert(events, key, content, payload)
    /\ lastPayload' = [lastPayload EXCEPT ![key] = payload]
    /\ UNCHANGED <<rules, actions, calls, started, notes, queue, fnIn, fnOut, workerVars>>

-----------------------------------------------------------------------------
(* tools.py: rule management.  created_at is the insertion timestamp,      *)
(* which two inserts may share.                                            *)

RuleIds == 1..Len(rules)

NewRuleRow(input, created_at) ==
    [enabled |-> TRUE, priority |-> input.priority,
     created_at |-> created_at, conditions |-> input.conditions,
     action |-> input.action, action_config |-> input.action_config,
     match_count |-> 0, last_matched_at |-> "NULL"]

\* create_rule: the table after the INSERT, at timestamp t
create_rule(rs, input, t) == Append(rs, NewRuleRow(input, t))

\* the rule tables a run starts from: each is made by create_rule calls,
\* the last one with the two rules inserted at the same timestamp
RuleTables ==
    { << >>,
      create_rule(<< >>, TagRule, 1),
      create_rule(<< >>, NoteRule, 1),
      create_rule(<< >>, BadTitleRule, 1),
      create_rule(<< >>, BadRegexRule, 1),
      create_rule(create_rule(<< >>, NoteRule, 1), TagRule, 2),
      create_rule(create_rule(<< >>, TagRule, 1), BadTitleRule, 1) }

\* update_rule(rule_id, enabled = b)
update_rule(id, b) ==
    /\ id \in RuleIds
    /\ rules[id].enabled # b
    /\ rules' = [rules EXCEPT ![id].enabled = b]
    /\ UNCHANGED <<events, actions, calls, started, notes, queue, lastPayload, fnIn, fnOut, workerVars>>

-----------------------------------------------------------------------------
(* router.py: get_enabled_rules and route_event *)

\* ORDER BY priority DESC, created_at ASC
Precedes(a, b) ==
    \/ a.priority > b.priority
    \/ a.priority = b.priority /\ a.created_at < b.created_at

EnabledIds(rs) == { id \in 1..Len(rs) : rs[id].enabled }

\* the orders the SELECT may return the enabled rules in: rows that tie on
\* (priority, created_at) come in any order
get_enabled_rules(rs) ==
    LET ids == EnabledIds(rs)
        n == Cardinality(ids)
    IN  { s \in [1..n -> ids] :
            /\ \A i, j \in 1..n : i # j => s[i] # s[j]
            /\ \A i, j \in 1..n : i < j => ~Precedes(rs[s[j]], rs[s[i]]) }

NoRoute == [kind |-> "none", rule_id |-> 0, action |-> "", action_config |-> NoConfig]

\* route_event over the rules in the order given: the first rule whose
\* conditions match; kind is "match", "none", or the exception raised
RECURSIVE route_over(_, _, _)
route_over(order, rs, event) ==
    IF order = <<>> THEN NoRoute
    ELSE LET rule == rs[Head(order)]
             m == matches_conditions(event, rule.conditions)
         IN  IF m = "true"
             THEN [kind |-> "match", rule_id |-> Head(order), action |-> rule.action,
                   action_config |-> rule.action_config]
             ELSE IF m = "false"
             THEN route_over(Tail(order), rs, event)
             ELSE [NoRoute EXCEPT !.kind = m]

\* the results route_event(event) may return on the rule table rs
route_event(rs, event) ==
    { route_over(order, rs, event) : order \in get_enabled_rules(rs) }

-----------------------------------------------------------------------------
(* actions.py: the handlers.  A handler outcome is the dict it returns,    *)
(* or the exception it raises (exc, the text of str(e); None if none).     *)

ActionResult(success, error, message, tags_added, note_path, task_id) ==
    [success |-> success, error |-> error, message |-> message,
     tags_added |-> tags_added, note_path |-> note_path, task_id |-> task_id]

NoActionResult == ActionResult(FALSE, None, "", None, None, 0)

Returned(result) == [exc |-> None, result |-> result]
Raised(exc) == [exc |-> exc, result |-> NoActionResult]

\* config.get("tags", [])
TagsOf(config) == IF config.tags = None THEN << >> ELSE config.tags

\* _action_create_note: the title of the note
NoteTitle(event, config) ==
    IF Falsy(config.title_template)
    THEN IF Falsy(event.email_subject) THEN <<"Untitled Event">> ELSE event.email_subject
    ELSE config.title_template

\* str.format(subject=, from_=, date=) knows no other field
FormatRaises(config) ==
    /\ ~Falsy(config.title_template)
    /\ config.title_template \notin { <<"{subject}">>, <<"{from_}">>, <<"{date}">> }

\* notes/tools.py create_note: file_path = folder/slug.md, unique in notes.notes
NotePath(title) == Lower(title)

_action_create_note(event, config, ns) ==
    IF FormatRaises(config) THEN Raised(<<"KeyError">>)
    ELSE IF NotePath(NoteTitle(event, config)) \in ns THEN Raised(<<"UniqueViolation">>)
    ELSE Returned(ActionResult(TRUE, None, "", None, NotePath(NoteTitle(event, config)), 0))

_action_tag(config) ==
    IF TagsOf(config) = << >>
    THEN Returned(ActionResult(TRUE, None, "No tags specified", None, None, 0))
    ELSE Returned(ActionResult(TRUE, None, "", TagsOf(config), None, 0))

_action_ignore == Returned(ActionResult(TRUE, None, "Event ignored", None, None, 0))

\* fault: the task_name is not tested
_action_spawn_task_any(config, q) ==
    Returned(ActionResult(TRUE, None, "", None, None, Len(q) + 1))

_action_spawn_task(config, q) ==
    IF Falsy(config.task_name)
    THEN Returned(ActionResult(FALSE, <<"No task_name specified">>, "", None, None, 0))
    ELSE Returned(ActionResult(TRUE, None, "", None, None, Len(q) + 1))

\* execute_action: the dispatch on the action name
\* fault: an action that is not known is taken as done
DispatchUnknownDone(action, config, event, ns, q) ==
    CASE action = "create_note" -> _action_create_note(event, config, ns)
      [] action = "tag" -> _action_tag(config)
      [] action = "spawn_task" -> _action_spawn_task(config, q)
      [] OTHER -> _action_ignore

Dispatch(action, config, event, ns, q) ==
    CASE action = "create_note" -> _action_create_note(event, config, ns)
      [] action = "tag" -> _action_tag(config)
      [] action = "ignore" -> _action_ignore
      [] action = "spawn_task" -> _action_spawn_task(config, q)
      [] OTHER -> Returned(ActionResult(FALSE, <<"Unknown action: ", action>>, "", None, None, 0))

\* execute_action: what it returns, the handler's dict or the error_result
\* of the except branch
ExecuteResult(outcome) ==
    IF outcome.exc = None THEN outcome.result
    ELSE ActionResult(FALSE, outcome.exc, "", None, None, 0)

\* fault: the tags are not stored
MergeTagsDropped(row, tags) == row

\* _action_tag: route_result = COALESCE(route_result, '{}') || {"tags": tags}
MergeTags(row, tags) ==
    [row EXCEPT !.route_result = [@ EXCEPT !.null = FALSE, !.tags = tags]]

\* the events table after the handler ran
HandlerEvents(table, id, action, config) ==
    IF action = "tag" /\ TagsOf(config) # << >> /\ id \in 1..Len(table)
    THEN [table EXCEPT ![id] = MergeTags(@, TagsOf(config))]
    ELSE table

\* the notes table after the handler ran
HandlerNotes(ns, outcome) ==
    IF outcome.exc = None /\ outcome.result.note_path # None
    THEN ns \cup {outcome.result.note_path}
    ELSE ns

\* the default queue after the handler ran
HandlerQueue(q, outcome, config, id) ==
    IF outcome.exc = None /\ outcome.result.task_id # 0
    THEN Append(q, [task_name |-> config.task_name, event_id |-> id])
    ELSE q

\* _log_action_start: INSERT ... VALUES (..., 'running')
NewActionRow(event_id, rule_id, action) ==
    [event_id |-> event_id, rule_id |-> rule_id, action |-> action,
     status |-> "running", action_output |-> NoActionResult, error |-> None,
     completed_at |-> "NULL"]

\* fault: the status does not follow result.success
CompleteActionRowCompleted(row, result, error) ==
    [row EXCEPT !.status = "completed", !.action_output = result,
                !.error = error, !.completed_at = "set"]

\* _log_action_complete(action_id, result, error)
CompleteActionRow(row, result, error) ==
    [row EXCEPT !.status = IF result.success THEN "completed" ELSE "failed",
                !.action_output = result,
                !.error = error,
                !.completed_at = "set"]

\* fault: the except branch does not pass error=str(e)
ErrorArgDropped(outcome) == None

\* fault: the error text of a returned result is passed as error as well
ErrorArgOfResult(outcome) ==
    IF outcome.exc # None THEN outcome.exc ELSE outcome.result.error

\* the error argument execute_action passes to _log_action_complete
ErrorArg(outcome) == outcome.exc

-----------------------------------------------------------------------------
(* router.py process_event and tools.py reprocess_event, one step per      *)
(* database statement or committed transaction.                            *)

Callers == 1..MaxCallers

\* event = dict(event): the fields of the fetched row that are read later
Snapshot(row) ==
    [source |-> row.source, event_type |-> row.event_type, payload |-> row.payload,
     email_from |-> row.email_from, email_to |-> row.email_to,
     email_subject |-> row.email_subject, email_body |-> row.email_body]

NoEvent ==
    [source |-> None, event_type |-> None, payload |-> [rev |-> 0, attachments |-> << >>],
     email_from |-> None, email_to |-> None, email_subject |-> None,
     email_body |-> None]

\* what process_event returns
Result(error, status, event_id, rule_id, action, action_result) ==
    [error |-> error, status |-> status, event_id |-> event_id,
     rule_id |-> rule_id, action |-> action, action_result |-> action_result]

NoResult == Result(None, "", 0, 0, "", NoActionResult)

IdleCall ==
    [pc |-> "idle", op |-> "", event_id |-> 0, event |-> NoEvent,
     route |-> NoRoute, action_id |-> 0, outcome |-> Raised(None),
     result |-> NoResult, exc |-> None]

\* the state of call c moves on, nothing else of the calls changes
Goto(c, call) == calls' = [calls EXCEPT ![c] = call]

\* call c returns result: its locals are gone
Done(c, result) ==
    Goto(c, [IdleCall EXCEPT !.pc = "done", !.op = calls[c].op,
                             !.event_id = calls[c].event_id, !.result = result])

\* fault: the reset leaves the routing columns as they are
ResetRowStatusOnly(row) == [row EXCEPT !.status = "pending"]

\* reprocess_event: the UPDATE that resets the row
ResetRow(row) ==
    [row EXCEPT !.status = "pending", !.matched_rule_id = 0,
                !.route_result = NullRoute, !.routed_at = "NULL"]

\* fault: no guard on the status
IsPendingAlways(row) == TRUE

\* process_event: the guard on the fetched row
IsPending(row) == row.status = "pending"

\* fault: routed_at is not stamped
MarkUnmatchedNoStamp(row) == [row EXCEPT !.status = "unmatched"]

\* process_event: UPDATE ... SET status = 'unmatched', routed_at = now
MarkUnmatched(row) ==
    [row EXCEPT !.status = "unmatched", !.routed_at = "set"]

\* Json(route_result): rule_id, action, action_config
RouteJson(route) ==
    [null |-> FALSE, rule_id |-> route.rule_id, action |-> route.action,
     action_config |-> route.action_config, tags |-> None, tags_added |-> None]

\* fault: the terminal status is written with the routing decision
RecordRoutingWithStatus(row, route) ==
    [row EXCEPT !.matched_rule_id = route.rule_id,
                !.route_result = RouteJson(route),
                !.routed_at = "set",
                !.status = "processed"]

\* process_event: UPDATE ... SET matched_rule_id, route_result, routed_at
RecordRouting(row, route) ==
    [row EXCEPT !.matched_rule_id = route.rule_id,
                !.route_result = RouteJson(route),
                !.routed_at = "set"]

\* fault: a rule that was counted is not counted again
BumpRuleOnce(rs, id) ==
    [rs EXCEPT ![id].match_count = IF @ = 0 THEN 1 ELSE @, ![id].last_matched_at = "set"]

\* fault: the statistics UPDATE stamps the rule and leaves the count
BumpRuleStampOnly(rs, id) == [rs EXCEPT ![id].last_matched_at = "set"]

\* process_event: UPDATE events.rules SET match_count = match_count + 1
BumpRule(rs, id) ==
    [rs EXCEPT ![id].match_count = @ + 1, ![id].last_matched_at = "set"]

\* fault: the status does not follow the action result
NewStatusProcessed(action_result) == "processed"

\* process_event: the status the action result gives
NewStatus(action_result) == IF action_result.success THEN "processed" ELSE "failed"

\* a call is over when it has returned or raised, or its process has died
Over(call) == call.pc \in {"idle", "done", "raised", "crashed"}

StartProcess(c, e) ==
    /\ Over(calls[c])
    /\ \A d \in Callers : d < c => ~Over(calls[d])
    /\ started < MaxCalls
    /\ started' = started + 1
    /\ Goto(c, [IdleCall EXCEPT !.pc = "fetch", !.op = "process", !.event_id = e])
    /\ UNCHANGED <<events, rules, actions, notes, queue, lastPayload, fnIn, fnOut, workerVars>>

StartReprocess(c, e) ==
    /\ Over(calls[c])
    /\ \A d \in Callers : d < c => ~Over(calls[d])
    /\ started < MaxCalls
    /\ started' = started + 1
    /\ Goto(c, [IdleCall EXCEPT !.pc = "reset", !.op = "reprocess", !.event_id = e])
    /\ UNCHANGED <<events, rules, actions, notes, queue, lastPayload, fnIn, fnOut, workerVars>>

\* reprocess_event: reset, then process_event
Reset(c) ==
    /\ calls[c].pc = "reset"
    /\ events' = IF calls[c].event_id \in EventIds
                 THEN [events EXCEPT ![calls[c].event_id] = ResetRow(@)]
                 ELSE events
    /\ Goto(c, [calls[c] EXCEPT !.pc = "fetch"])
    /\ UNCHANGED <<rules, actions, started, notes, queue, lastPayload, fnIn, fnOut, workerVars>>

\* process_event: SELECT the event, NotFound and the pending guard
Fetch(c) ==
    LET e == calls[c].event_id
    IN  /\ calls[c].pc = "fetch"
        /\ IF e \notin EventIds
           THEN Done(c, Result(<<"Event not found">>, "", 0, 0, "", NoActionResult))
           ELSE IF ~IsPending(events[e])
           THEN Done(c, Result(<<"Event already processed: ", events[e].status>>, "", 0, 0,
                               "", NoActionResult))
           ELSE Goto(c, [calls[c] EXCEPT !.pc = "route", !.event = Snapshot(events[e])])
        /\ UNCHANGED <<events, rules, actions, started, notes, queue, lastPayload, fnIn, fnOut, workerVars>>

\* process_event: route_event(event); an exception of the matcher propagates
Route(c) ==
    /\ calls[c].pc = "route"
    /\ \E r \in route_event(rules, calls[c].event) :
          IF r.kind \in {"match", "none"}
          THEN Goto(c, [calls[c] EXCEPT !.pc = "write", !.route = r])
          ELSE Goto(c, [IdleCall EXCEPT !.pc = "raised", !.op = calls[c].op,
                                        !.event_id = calls[c].event_id, !.exc = <<r.kind>>])
    /\ UNCHANGED <<events, rules, actions, started, notes, queue, lastPayload, fnIn, fnOut, workerVars>>

\* process_event: commit unmatched and return, or commit the routing
\* decision and the rule statistics
WriteRouting(c) ==
    LET e == calls[c].event_id
        r == calls[c].route
    IN  /\ calls[c].pc = "write"
        /\ IF r.kind = "none"
           THEN /\ events' = [events EXCEPT ![e] = MarkUnmatched(@)]
                /\ rules' = rules
                /\ Done(c, Result(None, "unmatched", e, 0, "", NoActionResult))
           ELSE /\ events' = [events EXCEPT ![e] = RecordRouting(@, r)]
                /\ rules' = BumpRule(rules, r.rule_id)
                /\ Goto(c, [calls[c] EXCEPT !.pc = "log_start"])
        /\ UNCHANGED <<actions, started, notes, queue, lastPayload, fnIn, fnOut, workerVars>>

\* the running ActionLog rows of an event
RunningRows(e) == { i \in 1..Len(actions) : actions[i].event_id = e /\ actions[i].status = "running" }

\* fault: a running row of the event is taken over instead of a new INSERT
LogStartReuse(c) ==
    /\ calls[c].pc = "log_start"
    /\ IF RunningRows(calls[c].event_id) # {}
       THEN /\ actions' = actions
            /\ Goto(c, [calls[c] EXCEPT !.pc = "handler",
                            !.action_id = CHOOSE i \in RunningRows(calls[c].event_id) : TRUE])
       ELSE /\ actions' = Append(actions, NewActionRow(calls[c].event_id,
                                     calls[c].route.rule_id, calls[c].route.action))
            /\ Goto(c, [calls[c] EXCEPT !.pc = "handler", !.action_id = Len(actions) + 1])
    /\ UNCHANGED <<events, rules, started, notes, queue, lastPayload, fnIn, fnOut, workerVars>>

\* execute_action: _log_action_start
LogStart(c) ==
    /\ calls[c].pc = "log_start"
    /\ actions' = Append(actions, NewActionRow(calls[c].event_id, calls[c].route.rule_id,
                                               calls[c].route.action))
    /\ Goto(c, [calls[c] EXCEPT !.pc = "handler", !.action_id = Len(actions) + 1])
    /\ UNCHANGED <<events, rules, started, notes, queue, lastPayload, fnIn, fnOut, workerVars>>

\* execute_action: the handler runs
Handler(c) ==
    LET r == calls[c].route
        out == Dispatch(r.action, r.action_config, calls[c].event, notes, queue)
    IN  /\ calls[c].pc = "handler"
        /\ events' = HandlerEvents(events, calls[c].event_id, r.action, r.action_config)
        /\ notes' = HandlerNotes(notes, out)
        /\ queue' = HandlerQueue(queue, out, r.action_config, calls[c].event_id)
        /\ Goto(c, [calls[c] EXCEPT !.pc = "log_done", !.outcome = out])
        /\ UNCHANGED <<rules, actions, started, lastPayload, fnIn, fnOut, workerVars>>

\* _action_spawn_task when absurd.spawn raises: the handler catches the
\* exception and returns it as a failure; no task is queued
SpawnFailed == ActionResult(FALSE, <<"Failed to spawn task: ", "e">>, "", None, None, 0)

HandlerSpawnFails(c) ==
    /\ calls[c].pc = "handler"
    /\ calls[c].route.action = "spawn_task"
    /\ ~Falsy(calls[c].route.action_config.task_name)
    /\ Goto(c, [calls[c] EXCEPT !.pc = "log_done", !.outcome = Returned(SpawnFailed)])
    /\ UNCHANGED <<events, rules, actions, started, notes, queue, lastPayload, fnIn, fnOut,
                   workerVars>>

\* execute_action: _log_action_complete, in the try or in the except branch
LogDone(c) ==
    /\ calls[c].pc = "log_done"
    /\ actions' = [actions EXCEPT ![calls[c].action_id] =
                      CompleteActionRow(@, ExecuteResult(calls[c].outcome),
                                        ErrorArg(calls[c].outcome))]
    /\ Goto(c, [calls[c] EXCEPT !.pc = "final"])
    /\ UNCHANGED <<events, rules, started, notes, queue, lastPayload, fnIn, fnOut, workerVars>>

\* process_event: UPDATE ... SET status = new_status, and return
Final(c) ==
    LET e == calls[c].event_id
        ar == ExecuteResult(calls[c].outcome)
    IN  /\ calls[c].pc = "final"
        /\ events' = [events EXCEPT ![e].status = NewStatus(ar)]
        /\ Done(c, Result(None, NewStatus(ar), e, calls[c].route.rule_id,
                          calls[c].route.action, ar))
        /\ UNCHANGED <<rules, actions, started, notes, queue, lastPayload, fnIn, fnOut, workerVars>>

\* the places of process_event between the commit of the routing decision
\* and the UPDATE of the terminal status
AfterRouting == {"log_start", "handler", "log_done", "final"}

\* the process dies there: nothing more of the call is written, nothing that
\* was committed is taken back
Crash(c) ==
    /\ calls[c].pc \in AfterRouting
    /\ Goto(c, [IdleCall EXCEPT !.pc = "crashed", !.op = calls[c].op,
                                !.event_id = calls[c].event_id])
    /\ UNCHANGED <<events, rules, actions, started, notes, queue, lastPayload, fnIn, fnOut,
                   workerVars>>

-----------------------------------------------------------------------------
(* core/worker/schedulers.py: the scheduler descriptors and their spawning. *)
(* absurd maps each queue that exists to its task rows; a worker process   *)
(* runs spawn_all_schedulers at startup, or spawn_scheduler on one config. *)

MaxProcs == 2
MaxRuns == 2

Procs == 1..MaxProcs

\* the queues get_running_schedulers looks at, in this order
QUEUES == <<"default", "obsidian", "email">>

\* every queue of the database: the three of the worker and one more lane
AllQueues == {"default", "obsidian", "email", "reports"}

ActiveStates == {"pending", "running", "sleeping"}

ResendScheduler == <<"resend", ".scheduler">>
ObsidianScheduler == <<"obsidian", ".scheduler">>
CrmDigest == <<"crm", ".digest">>

SchedulerConfig(task_name, queue_name, singleton, enabled) ==
    [task_name |-> task_name, queue |-> queue_name, singleton |-> singleton,
     enabled |-> enabled]

\* resend/scheduler.py SCHEDULER_CONFIG: no enabled field
ResendConfig == SchedulerConfig(ResendScheduler, <<"email">>, PyTrue, None)

\* obsidian/scheduler.py SCHEDULER_CONFIG: enabled = is_vault_sync_enabled()
ObsidianConfig(vault) ==
    SchedulerConfig(ObsidianScheduler, <<"obsidian">>, PyTrue,
                    IF vault THEN PyTrue ELSE PyFalse)

\* discover_schedulers: the SCHEDULER_CONFIG of every scheduler.py
discover_schedulers(vault) == <<ObsidianConfig(vault), ResendConfig>>

\* the configs spawn_scheduler is called with directly
DirectConfigs ==
    { ResendConfig,
      SchedulerConfig(ResendScheduler, <<"reports">>, None, None),
      SchedulerConfig(CrmDigest, None, PyTrue, None),
      SchedulerConfig(CrmDigest, <<"reports">>, PyFalse, None) }

\* config.get("queue", "default")
QueueOf(config) == IF config.queue = None THEN "default" ELSE config.queue[1]

\* config.get("singleton", True)
IsSingleton(config) == ~Falsy(IF config.singleton = None THEN PyTrue ELSE config.singleton)

\* fault: a descriptor without the field counts as disabled
IsEnabledWhenSet(config) == config.enabled = PyTrue

\* config.get("enabled", True)
IsEnabled(config) == ~Falsy(IF config.enabled = None THEN PyTrue ELSE config.enabled)

\* task_name LIKE '%.scheduler'
LikeScheduler(task_name) ==
    Len(task_name) > 0 /\ task_name[Len(task_name)] = ".scheduler"

TaskRow(task_name, state) == [task_name |-> task_name, state |-> state]

\* the rows of one queue the SELECT returns
RunningIn(table) ==
    { table[i].task_name : i \in { j \in 1..Len(table) :
                                     /\ LikeScheduler(table[j].task_name)
                                     /\ table[j].state \in ActiveStates } }

\* fault: a query that raises leaves the later queries as they are
RECURSIVE running_over_each(_, _, _, _)
running_over_each(qs, tables, aborted, running) ==
    IF qs = << >> THEN running
    ELSE IF Head(qs) \notin DOMAIN tables
         THEN running_over_each(Tail(qs), tables, FALSE, running)
         ELSE running_over_each(Tail(qs), tables, FALSE,
                                running \cup RunningIn(tables[Head(qs)]))

\* the loop over the queues on one connection: a query on a missing table
\* raises and aborts the transaction, so the later queries raise as well;
\* every exception is passed over
RECURSIVE running_over(_, _, _, _)
running_over(qs, tables, aborted, running) ==
    IF qs = << >> THEN running
    ELSE IF aborted \/ Head(qs) \notin DOMAIN tables
         THEN running_over(Tail(qs), tables, TRUE, running)
         ELSE running_over(Tail(qs), tables, FALSE,
                           running \cup RunningIn(tables[Head(qs)]))

\* get_running_schedulers: the task names found active
get_running_schedulers(tables) == running_over(QUEUES, tables, FALSE, {})

\* an instance of task_name is pending, running or sleeping in some queue
IsActive(tables, task_name) ==
    \E q \in DOMAIN tables : \E i \in 1..Len(tables[q]) :
        tables[q][i].task_name = task_name /\ tables[q][i].state \in ActiveStates

ActiveCount(tables, task_name) ==
    Cardinality({ <<q, i>> \in UNION { {q} \X (1..Len(tables[q])) : q \in DOMAIN tables } :
                    /\ tables[q][i].task_name = task_name
                    /\ tables[q][i].state \in ActiveStates })

SpawnResult(spawned, reason, task_name) ==
    [spawned |-> spawned, reason |-> reason, task_name |-> task_name]

IdleProc == [pc |-> "idle", run |-> "", todo |-> << >>, results |-> << >>]

\* process p moves on, the other processes stay
ProcGoto(p, proc) == spawns' = [spawns EXCEPT !.proc[p] = proc]

\* the result of the config at hand is appended and the next one is taken
NextConfig(proc, result) ==
    [proc EXCEPT !.results = Append(@, result),
                 !.todo = Tail(@),
                 !.pc = IF Len(proc.todo) = 1 THEN "done" ELSE "check"]

\* main.py main: a worker process starts, or restarts wherever it was, and
\* calls spawn_all_schedulers
StartWorker(p) ==
    /\ spawns.runs < MaxRuns
    /\ spawns' = [spawns EXCEPT !.runs = @ + 1,
                                !.proc[p] = [IdleProc EXCEPT
                                                !.pc = "check", !.run = "all",
                                                !.todo = discover_schedulers(spawns.vault)]]
    /\ UNCHANGED <<events, rules, actions, calls, started, notes, queue, lastPayload,
                   fnIn, fnOut, absurd, sched, _tasks, boot, batch>>

\* spawn_scheduler(config) called on its own
StartSpawn(p, config) ==
    /\ spawns.proc[p].pc \in {"idle", "done", "raised"}
    /\ spawns.runs < MaxRuns
    /\ spawns' = [spawns EXCEPT !.runs = @ + 1,
                                !.proc[p] = [IdleProc EXCEPT
                                                !.pc = "check", !.run = "one",
                                                !.todo = <<config>>]]
    /\ UNCHANGED <<events, rules, actions, calls, started, notes, queue, lastPayload,
                   fnIn, fnOut, absurd, sched, _tasks, boot, batch>>

\* spawn_all_schedulers: the enabled test; spawn_scheduler: the singleton
\* test on get_running_schedulers()
CheckConfig(p) ==
    LET proc == spawns.proc[p]
        config == Head(proc.todo)
    IN  /\ proc.pc = "check"
        /\ IF proc.run = "all" /\ ~IsEnabled(config)
           THEN ProcGoto(p, NextConfig(proc, SpawnResult(FALSE, "disabled", config.task_name)))
           ELSE IF IsSingleton(config) /\ config.task_name \in get_running_schedulers(absurd)
           THEN ProcGoto(p, NextConfig(proc, SpawnResult(FALSE, "already_running",
                                                         config.task_name)))
           ELSE ProcGoto(p, [proc EXCEPT !.pc = "spawn"])
        /\ UNCHANGED <<events, rules, actions, calls, started, notes, queue, lastPayload,
                       fnIn, fnOut, absurd, sched, _tasks, boot, batch>>

\* spawn_scheduler: absurd.spawn(task_name, params, queue=queue); the call
\* raises when the queue does not exist
SpawnTask(p) ==
    LET proc == spawns.proc[p]
        config == Head(proc.todo)
        q == QueueOf(config)
    IN  /\ proc.pc = "spawn"
        /\ IF q \in DOMAIN absurd
           THEN /\ absurd' = [absurd EXCEPT ![q] = Append(@, TaskRow(config.task_name, "pending"))]
                /\ ProcGoto(p, NextConfig(proc, SpawnResult(TRUE, "", config.task_name)))
           ELSE /\ absurd' = absurd
                /\ ProcGoto(p, [proc EXCEPT !.pc = "raised"])
        /\ UNCHANGED <<events, rules, actions, calls, started, notes, queue, lastPayload,
                       fnIn, fnOut, sched, _tasks, boot, batch>>

-----------------------------------------------------------------------------
(* integrations/resend: the resend.scheduler task.  The task function is   *)
(* run by the queue engine: ctx.step(name, fn) runs fn and stores its      *)
(* result under name, or returns the stored result; ctx.sleep_for(name, d) *)
(* stores the wake time under name and suspends the run until then; a run  *)
(* starts the function from its first line.                                *)

MaxIter == 3
MaxCrashes == 1

DefaultInterval == 60
DefaultMaxInterval == 3600

Min(a, b) == IF a <= b THEN a ELSE b

\* the params the task is spawned with
SchedParams ==
    { "interval_seconds" :> 60,
      "interval_seconds" :> 5000,
      ("interval_seconds" :> 60) @@ ("max_interval_seconds" :> 100) }

\* params.get(key, default)
Get(params, key, default) == IF key \in DOMAIN params THEN params[key] ELSE default

interval_seconds(params) == Get(params, "interval_seconds", DefaultInterval)
max_interval_seconds(params) == Get(params, "max_interval_seconds", DefaultMaxInterval)

\* f"sync-{iteration}" and f"wait-{iteration}"
SyncStepName(iteration) == <<"sync-", iteration>>

\* fault: the name of the sleep does not carry the iteration
WaitStepNameFixed(iteration) == <<"wait-", 0>>

WaitStepName(iteration) == <<"wait-", iteration>>

\* what the Resend API does during one sync: list_received_emails raises,
\* or lists nothing, or lists the email m1 and get_received_email returns
\* it or raises; and, when the email is returned, whether the process_event
\* call on its event raises (a failing statement, an exception of the matcher)
ApiBehaviours ==
    {"list_raises", "no_email", "email", "email_get_raises", "email_process_raises"}

\* the dict _do_sync returns; api_failed records whether an API call raised
SyncResult(error, created, processed, api_failed) ==
    [error |-> error, created |-> created, processed |-> processed,
     api_failed |-> api_failed]

NoSyncResult == SyncResult(None, 0, 0, FALSE)

\* fault: no email id is taken as synced
synced_ids_none(table) == {}

\* synced_ids: the source_id of every resend event
synced_ids(table) ==
    { table[id].source_id : id \in { i \in 1..Len(table) : table[i].source = <<"resend">> } }

\* process_event on the row just created when no rule is configured:
\* route_event returns None and the row is marked unmatched
ProcessUnrouted(table, key) ==
    [id \in 1..Len(table) |->
        IF KeyOf(table[id]) = key /\ IsPending(table[id])
        THEN MarkUnmatched(table[id]) ELSE table[id]]

\* _do_sync: the events table it leaves and the dict it returns
_do_sync(table, api) ==
    LET key == <<"resend", "m1">>
        payload == [rev |-> 1, attachments |-> << >>]
    IN  IF api = "list_raises"
        THEN [events |-> table, created |-> FALSE,
              result |-> SyncResult(<<"ResendError">>, 0, 0, TRUE)]
        ELSE IF api = "no_email" \/ key[2] \in synced_ids(table)
        THEN [events |-> table, created |-> FALSE, result |-> SyncResult(None, 0, 0, FALSE)]
        ELSE IF api = "email_get_raises"
        THEN [events |-> table, created |-> FALSE, result |-> SyncResult(None, 0, 0, TRUE)]
        ELSE IF api = "email_process_raises"
        THEN [events |-> Upsert(table, key, ContentOf(key), payload), created |-> TRUE,
              result |-> SyncResult(None, 1, 0, FALSE)]
        ELSE [events |-> ProcessUnrouted(Upsert(table, key, ContentOf(key), payload), key),
              created |-> TRUE,
              result |-> SyncResult(None, 1, 0, FALSE)]

\* fault: the exponent is the error count before this failure
BackoffBeforeCount(interval, max_interval, errors) ==
    Min(interval * (2 ^ (errors - 1)), max_interval)

\* backoff = min(interval_seconds * (2 ** consecutive_errors), max_interval_seconds)
Backoff(interval, max_interval, errors) == Min(interval * (2 ^ errors), max_interval)

\* the line the scheduler prints for an iteration
LogLine(iteration, kind, backoff) ==
    [iteration |-> iteration, kind |-> kind, backoff |-> backoff]

NoLog == LogLine(0, "", 0)

\* the locals of a run that starts: iteration = 0, consecutive_errors = 0
NewRun ==
    [pc |-> "top", iteration |-> 0, consecutive_errors |-> 0, result |-> NoSyncResult,
     duration |-> 0]

\* the task before its first run
NewSched(params) ==
    [params |-> params, steps |-> << >>, sleeps |-> << >>, now |-> 0, wake_at |-> 0,
     run |-> NewRun, log |-> NoLog, execs |-> [i \in 1..(MaxIter + 1) |-> 0],
     reached |-> NewRun, restarted |-> "", crashes |-> 0]

\* the run moves on
RunGoto(run) == sched' = [sched EXCEPT !.run = run]

\* while True: iteration += 1
LoopTop ==
    /\ sched.run.pc = "top"
    /\ sched.run.iteration < MaxIter
    /\ RunGoto([sched.run EXCEPT !.pc = "sync", !.iteration = @ + 1])
    /\ UNCHANGED <<events, rules, actions, calls, started, notes, queue, lastPayload,
                   fnIn, fnOut, absurd, spawns, _tasks, boot, batch>>

\* result = ctx.step(f"sync-{iteration}", _do_sync): the stored result, or
\* _do_sync runs
SyncStep ==
    LET name == SyncStepName(sched.run.iteration)
    IN  /\ sched.run.pc = "sync"
        /\ IF name \in DOMAIN sched.steps
           THEN /\ RunGoto([sched.run EXCEPT !.pc = "after", !.result = sched.steps[name]])
                /\ UNCHANGED <<events, lastPayload>>
           ELSE \E api \in ApiBehaviours :
                   LET out == _do_sync(events, api)
                   IN  /\ events' = out.events
                       /\ lastPayload' =
                             IF out.created
                             THEN [lastPayload EXCEPT ![<<"resend", "m1">>] =
                                      [rev |-> 1, attachments |-> << >>]]
                             ELSE lastPayload
                       /\ sched' = [sched EXCEPT
                                       !.run = [@ EXCEPT !.pc = "persist",
                                                         !.result = out.result],
                                       !.execs[sched.run.iteration] = @ + 1]
        /\ UNCHANGED <<rules, actions, calls, started, notes, queue, fnIn, fnOut,
                       absurd, spawns, _tasks, boot, batch>>

\* ctx.step: the result of the step is stored
PersistStep ==
    /\ sched.run.pc = "persist"
    /\ sched' = [sched EXCEPT
                    !.steps = (SyncStepName(sched.run.iteration) :> sched.run.result) @@ @,
                    !.run = [@ EXCEPT !.pc = "after"]]
    /\ UNCHANGED <<events, rules, actions, calls, started, notes, queue, lastPayload,
                   fnIn, fnOut, absurd, spawns, _tasks, boot, batch>>

\* fault: a success leaves consecutive_errors as it is
AfterStepKeepCount ==
    LET run == sched.run
        errors == run.consecutive_errors + 1
        backoff == Backoff(interval_seconds(sched.params),
                           max_interval_seconds(sched.params), errors)
    IN  /\ run.pc = "after"
        /\ IF ~Falsy(run.result.error)
           THEN sched' = [sched EXCEPT
                             !.run = [@ EXCEPT !.pc = "sleep",
                                               !.consecutive_errors = errors,
                                               !.duration = backoff],
                             !.log = LogLine(run.iteration, "error", backoff)]
           ELSE sched' = [sched EXCEPT
                             !.run = [@ EXCEPT !.pc = "sleep",
                                               !.duration = interval_seconds(sched.params)],
                             !.log = LogLine(run.iteration,
                                             IF run.result.created > 0 THEN "synced"
                                             ELSE "no new emails", 0)]
        /\ UNCHANGED <<events, rules, actions, calls, started, notes, queue, lastPayload,
                       fnIn, fnOut, absurd, spawns, _tasks, boot, batch>>

\* the branch on result.get("error"): count and back off, or reset
AfterStep ==
    LET run == sched.run
        errors == run.consecutive_errors + 1
        backoff == Backoff(interval_seconds(sched.params),
                           max_interval_seconds(sched.params), errors)
    IN  /\ run.pc = "after"
        /\ IF ~Falsy(run.result.error)
           THEN sched' = [sched EXCEPT
                             !.run = [@ EXCEPT !.pc = "sleep",
                                               !.consecutive_errors = errors,
                                               !.duration = backoff],
                             !.log = LogLine(run.iteration, "error", backoff)]
           ELSE sched' = [sched EXCEPT
                             !.run = [@ EXCEPT !.pc = "sleep",
                                               !.consecutive_errors = 0,
                                               !.duration = interval_seconds(sched.params)],
                             !.log = LogLine(run.iteration,
                                             IF run.result.created > 0 THEN "synced"
                                             ELSE "no new emails", 0)]
        /\ UNCHANGED <<events, rules, actions, calls, started, notes, queue, lastPayload,
                       fnIn, fnOut, absurd, spawns, _tasks, boot, batch>>

\* ctx.sleep_for(f"wait-{iteration}", duration): the wake time is stored
\* once; the run is suspended until then, or goes on when it has passed
SleepFor ==
    LET run == sched.run
        name == WaitStepName(run.iteration)
        wake == IF name \in DOMAIN sched.sleeps THEN sched.sleeps[name]
                ELSE sched.now + run.duration
    IN  /\ run.pc = "sleep"
        /\ sched' = [sched EXCEPT
                        !.sleeps = (name :> wake) @@ @,
                        !.wake_at = wake,
                        !.reached = IF sched.now < wake THEN run ELSE @,
                        !.run = IF sched.now < wake
                                THEN [NewRun EXCEPT !.pc = "suspended"]
                                ELSE [run EXCEPT !.pc = "top"]]
        /\ UNCHANGED <<events, rules, actions, calls, started, notes, queue, lastPayload,
                       fnIn, fnOut, absurd, spawns, _tasks, boot, batch>>

\* the wake time comes and a worker runs the task again
WakeUp ==
    /\ sched.run.pc = "suspended"
    /\ sched' = [sched EXCEPT !.now = sched.wake_at, !.run = NewRun]
    /\ UNCHANGED <<events, rules, actions, calls, started, notes, queue, lastPayload,
                   fnIn, fnOut, absurd, spawns, _tasks, boot, batch>>

\* the worker process dies, while the task runs or while it sleeps, and a
\* new process runs the task again
Restart ==
    /\ sched.crashes < MaxCrashes
    /\ sched' = [sched EXCEPT
                    !.crashes = @ + 1,
                    !.restarted = IF sched.run.pc = "suspended" THEN "sleeping" ELSE "running",
                    !.reached = IF sched.run.pc = "suspended" THEN @ ELSE sched.run,
                    !.run = IF sched.run.pc = "suspended" THEN @ ELSE NewRun]
    /\ UNCHANGED <<events, rules, actions, calls, started, notes, queue, lastPayload,
                   fnIn, fnOut, absurd, spawns, _tasks, boot, batch>>

-----------------------------------------------------------------------------
(* core/worker/registry.py: the task registry.                             *)

TaskNames == {"resend.sync", "resend.scheduler"}

Handlers == {"sync_emails", "resend_scheduler", "other"}

\* register_task(name)(fn): _tasks[name] = fn
register_task(name, fn) ==
    /\ _tasks' = (name :> fn) @@ _tasks
    /\ UNCHANGED <<events, rules, actions, calls, started, notes, queue, lastPayload,
                   fnIn, fnOut, absurd, spawns, sched, boot, batch>>

\* get_tasks(): return _tasks.copy(); fnOut is the dict the caller holds
get_tasks ==
    /\ fnOut' = _tasks
    /\ UNCHANGED <<events, rules, actions, calls, started, notes, queue, lastPayload,
                   fnIn, absurd, spawns, sched, _tasks, boot, batch>>

\* the caller sets or deletes a key of the dict it holds
MutateCopy(name, fn) ==
    /\ \/ fnOut' = (name :> fn) @@ fnOut
       \/ /\ name \in DOMAIN fnOut
          /\ fnOut' = [n \in DOMAIN fnOut \ {name} |-> fnOut[n]]
    /\ UNCHANGED <<events, rules, actions, calls, started, notes, queue, lastPayload,
                   fnIn, absurd, spawns, sched, _tasks, boot, batch>>

-----------------------------------------------------------------------------
(* The pipeline: ingestion, rule management and calls that interleave.     *)

NoPayload == [rev |-> 0, attachments |-> << >>]

NoInput == [event |-> NoEvent, conditions |-> << >>]

\* main.py: the threads of the worker process.  BootIdle is the process
\* before main() is called.
LaneNames == {QUEUES[i] : i \in 1..Len(QUEUES)}

NewLane == [pc |-> "new", i |-> 1, _registry |-> {}]

BootIdle ==
    [broken |-> {}, loaded |-> {}, main |-> [pc |-> "idle", i |-> 1],
     lane |-> [q \in LaneNames |-> NewLane]]

\* events/tasks.py process_pending_events before it is run
NoBatch ==
    [pc |-> "idle", limit |-> 0, rows |-> << >>, i |-> 1, processed |-> 0, failed |-> 0,
     results |-> << >>]

\* no scheduler task, no worker process, nothing registered
WorkerIdle ==
    /\ absurd = [q \in AllQueues |-> << >>]
    /\ spawns = [vault |-> FALSE, runs |-> 0, proc |-> [p \in Procs |-> IdleProc]]
    /\ sched = NewSched("interval_seconds" :> DefaultInterval)
    /\ _tasks = << >>
    /\ boot = BootIdle
    /\ batch = NoBatch

Init ==
    /\ events = << >>
    /\ rules \in RuleTables
    /\ actions = << >>
    /\ calls = [c \in Callers |-> IdleCall]
    /\ started = 0
    /\ notes = {}
    /\ queue = << >>
    /\ lastPayload = [k \in EventKeys |-> NoPayload]
    /\ fnIn = NoInput
    /\ fnOut = "unset"
    /\ WorkerIdle

\* resend/tasks.py: the sync creates the event of an email id
Ingest == \E p \in Payloads : create_event(<<"resend", "m1">>, ContentOf(<<"resend", "m1">>), p)

\* tools.py create_manual_event: source_id is a fresh uuid4, never seen before
create_manual_event(p) ==
    /\ \A id \in EventIds : KeyOf(events[id]) # <<"manual", "u1">>
    /\ create_event(<<"manual", "u1">>, ContentOf(<<"manual", "u1">>), p)

IngestManual == \E p \in Payloads : create_manual_event(p)

UpdateRule == \E id \in RuleIds, b \in BOOLEAN : update_rule(id, b)

Next ==
    \/ Ingest
    \/ IngestManual
    \/ UpdateRule
    \/ \E c \in Callers, e \in EventIdArgs : StartProcess(c, e)
    \/ \E c \in Callers, e \in EventIdArgs : StartReprocess(c, e)
    \/ \E c \in Callers : Reset(c)
    \/ \E c \in Callers : Fetch(c)
    \/ \E c \in Callers : Route(c)
    \/ \E c \in Callers : WriteRouting(c)
    \/ \E c \in Callers : LogStart(c)
    \/ \E c \in Callers : Handler(c)
    \/ \E c \in Callers : LogDone(c)
    \/ \E c \in Callers : Final(c)

Spec == Init /\ [][Next]_vars

-----------------------------------------------------------------------------
(* The same operations run one at a time: a call returns before the next   *)
(* operation starts.                                                       *)

AllOver == \A c \in Callers : Over(calls[c])

SeqIngest == AllOver /\ Ingest

SeqIngestManual == AllOver /\ IngestManual

SeqUpdateRule == AllOver /\ UpdateRule

SeqStartProcess == AllOver /\ \E e \in EventIdArgs : StartProcess(1, e)

SeqStartReprocess == AllOver /\ \E e \in EventIdArgs : StartReprocess(1, e)

SeqNext ==
    \/ SeqIngest
    \/ SeqIngestManual
    \/ SeqUpdateRule
    \/ SeqStartProcess
    \/ SeqStartReprocess
    \/ \E c \in Callers : Reset(c)
    \/ \E c \in Callers : Fetch(c)
    \/ \E c \in Callers : Route(c)
    \/ \E c \in Callers : WriteRouting(c)
    \/ \E c \in Callers : LogStart(c)
    \/ \E c \in Callers : Handler(c)
    \/ \E c \in Callers : LogDone(c)
    \/ \E c \in Callers : Final(c)

\* rules whose action is spawn_task: action_config without task_name, with
\* an empty one, and with the name of a task
SpawnRule(task_name) ==
    RuleInput(<< <<"from_contains", <<"x">> >> >>, "spawn_task",
              Config(None, task_name, None), 10)

\* a rule whose action is none of the four: create_rule stores any string
UnknownActionRule == RuleInput(<< >>, "archive", NoConfig, 10)

SeqRuleTables ==
    RuleTables \cup
    { create_rule(<< >>, UnknownActionRule, 1),
      create_rule(<< >>, SpawnRule(None), 1),
      create_rule(<< >>, SpawnRule(<< >>), 1),
      create_rule(<< >>, SpawnRule(<<"resend.sync">>), 1) }

SeqInit ==
    /\ events = << >>
    /\ rules \in SeqRuleTables
    /\ actions = << >>
    /\ calls = [c \in Callers |-> IdleCall]
    /\ started = 0
    /\ notes = {}
    /\ queue = << >>
    /\ lastPayload = [k \in EventKeys |-> NoPayload]
    /\ fnIn = NoInput
    /\ fnOut = "unset"
    /\ WorkerIdle

SeqSpec == SeqInit /\ [][SeqNext]_vars

\* the same, in a process that may die in the middle of a call
CrashNext ==
    \/ SeqNext
    \/ \E c \in Callers : Crash(c)

SpecCrash == SeqInit /\ [][CrashNext]_vars

\* create_event called again for the email m1 with other arguments; fnOut is
\* the dict it returns, the row of RETURNING *
NoRow ==
    [NewEventRow(<<"none", "none">>, ContentOf(<<"manual", "u1">>), NoPayload)
        EXCEPT !.status = "none"]

RowOf(table, key) == table[CHOOSE id \in 1..Len(table) : KeyOf(table[id]) = key]

Reingest ==
    \E p \in Payloads :
        /\ AllOver
        /\ events' = Upsert(events, <<"resend", "m1">>, AltContent, p)
        /\ lastPayload' = [lastPayload EXCEPT ![<<"resend", "m1">>] = p]
        /\ fnOut' = RowOf(events', <<"resend", "m1">>)
        /\ UNCHANGED <<rules, actions, calls, started, notes, queue, fnIn, workerVars>>

InitIngest ==
    /\ events = << >>
    /\ rules \in {<< >>, create_rule(<< >>, TagRule, 1), create_rule(<< >>, BadTitleRule, 1)}
    /\ actions = << >>
    /\ calls = [c \in Callers |-> IdleCall]
    /\ started = 0
    /\ notes = {}
    /\ queue = << >>
    /\ lastPayload = [k \in EventKeys |-> NoPayload]
    /\ fnIn = NoInput
    /\ fnOut = NoRow
    /\ WorkerIdle

NextIngest ==
    \/ SeqNext
    \/ Reingest

SpecIngest == InitIngest /\ [][NextIngest]_vars

\* the sequential pipeline where the spawn of a task may fail
NextSpawnFails ==
    \/ SeqNext
    \/ \E c \in Callers : HandlerSpawnFails(c)

SpecSpawnFails == SeqInit /\ [][NextSpawnFails]_vars

-----------------------------------------------------------------------------
(* events/tasks.py: the events.process_pending task.  It runs its          *)
(* process_event calls as call 1; call 2 is a process_event of another     *)
(* worker.  Events are inserted in id order, so the id order is the order  *)
(* of created_at.                                                          *)

\* the limits the task is run with
BatchLimits == {1, 2}

PendingIds(table) == { id \in 1..Len(table) : table[id].status = "pending" }

\* ORDER BY created_at ASC
RECURSIVE Ascending(_)
Ascending(ids) ==
    IF ids = {} THEN << >>
    ELSE LET first == CHOOSE x \in ids : \A y \in ids : x <= y
         IN  <<first>> \o Ascending(ids \ {first})

\* fault: the SELECT has no LIMIT
select_pending_all(table, limit) == Ascending(PendingIds(table))

\* SELECT id FROM events.events WHERE status = 'pending'
\* ORDER BY created_at ASC LIMIT %s
select_pending(table, limit) ==
    LET ids == Ascending(PendingIds(table))
    IN  SubSeq(ids, 1, Min(limit, Len(ids)))

\* the task starts: the batch is selected, the counters are 0
BatchSelect(limit) ==
    /\ batch.pc = "idle"
    /\ AllOver
    /\ LET rows == select_pending(events, limit)
       IN  batch' = [NoBatch EXCEPT !.pc = IF rows = << >> THEN "done" ELSE "loop",
                                    !.limit = limit, !.rows = rows]
    /\ UNCHANGED <<events, rules, actions, calls, started, notes, queue, lastPayload,
                   fnIn, fnOut, absurd, spawns, sched, _tasks, boot>>

\* for row in rows: ctx.step(f"process-{event_id}", lambda: process_event(event_id))
BatchCall ==
    /\ batch.pc = "loop"
    /\ Goto(1, [IdleCall EXCEPT !.pc = "fetch", !.op = "process",
                                !.event_id = batch.rows[batch.i]])
    /\ batch' = [batch EXCEPT !.pc = "wait"]
    /\ UNCHANGED <<events, rules, actions, started, notes, queue, lastPayload,
                   fnIn, fnOut, absurd, spawns, sched, _tasks, boot>>

\* the call has returned or raised: the branch on result.get("status"), or
\* the except branch; after the last row the task returns its counters
BatchCount ==
    LET call == calls[1]
        ok == call.pc = "done" /\ call.result.status = "processed"
        result == IF call.pc = "done" THEN call.result
                  ELSE Result(call.exc, "", call.event_id, 0, "", NoActionResult)
    IN  /\ batch.pc = "wait"
        /\ call.pc \in {"done", "raised"}
        /\ batch' = [batch EXCEPT
                        !.pc = IF batch.i = Len(batch.rows) THEN "done" ELSE "loop",
                        !.i = @ + 1,
                        !.processed = IF ok THEN @ + 1 ELSE @,
                        !.failed = IF ok THEN @ ELSE @ + 1,
                        !.results = Append(@, result)]
        /\ UNCHANGED <<events, rules, actions, calls, started, notes, queue, lastPayload,
                       fnIn, fnOut, absurd, spawns, sched, _tasks, boot>>

InitBatch ==
    /\ events = << >>
    /\ rules \in {<< >>, create_rule(<< >>, TagRule, 1), create_rule(<< >>, NoteRule, 1),
                   create_rule(<< >>, BadRegexRule, 1), create_rule(<< >>, SpawnRule(None), 1)}
    /\ actions = << >>
    /\ calls = [c \in Callers |-> IdleCall]
    /\ started = 0
    /\ notes = {}
    /\ queue = << >>
    /\ lastPayload = [k \in EventKeys |-> NoPayload]
    /\ fnIn = NoInput
    /\ fnOut = "unset"
    /\ WorkerIdle

NextBatch ==
    \/ Ingest
    \/ IngestManual
    \/ \E limit \in BatchLimits : BatchSelect(limit)
    \/ BatchCall
    \/ BatchCount
    \/ \E e \in EventIdArgs : StartProcess(2, e)
    \/ \E c \in Callers : Fetch(c)
    \/ \E c \in Callers : Route(c)
    \/ \E c \in Callers : WriteRouting(c)
    \/ \E c \in Callers : LogStart(c)
    \/ \E c \in Callers : Handler(c)
    \/ \E c \in Callers : LogDone(c)
    \/ \E c \in Callers : Final(c)

SpecBatch == InitBatch /\ [][NextBatch]_vars

-----------------------------------------------------------------------------
(* The matcher on its own: matches_conditions applied to an event and a    *)
(* conditions map drawn from bounded sets.                                 *)

MatchEvents ==
    { [source |-> <<"resend">>, event_type |-> <<"email.received">>,
       payload |-> [rev |-> 1, attachments |-> att],
       email_from |-> from, email_to |-> None,
       email_subject |-> subject, email_body |-> None] :
        att \in { << >>, <<"f">> },
        from \in { None, <<"x">> },
        subject \in { None, << >>, <<"H">>, <<"h", "i">> } } \cup
    { [source |-> blank, event_type |-> blank,
       payload |-> [rev |-> 1, attachments |-> << >>],
       email_from |-> blank, email_to |-> blank,
       email_subject |-> blank, email_body |-> blank] : blank \in { None, << >> } }

\* the entries a conditions map is made of; "priority_is" is no condition
\* the matcher knows
CondEntries ==
    { <<"from_contains", <<"X">> >>,
      <<"from_equals", <<"x">> >>,
      <<"subject_contains", <<"I">> >>,
      <<"subject_equals", <<"h">> >>,
      <<"subject_matches", <<"h", ".">> >>,
      <<"subject_matches", <<"h", ReErrorTok>> >>,
      <<"subject_matches", <<"h", OverflowTok>> >>,
      <<"has_attachment", PyTrue>>,
      <<"source_equals", <<"resend">> >>,
      <<"to_contains", <<"x">> >>,
      <<"to_equals", <<"x">> >>,
      <<"body_contains", <<"x">> >>,
      <<"event_type_equals", <<"email.received">> >>,
      <<"priority_is", <<"x">> >> }

\* the maps of n entries, in every iteration order; a key occurs once
RECURSIVE CondSeqs(_)
CondSeqs(n) ==
    IF n = 0 THEN { << >> }
    ELSE UNION { { Append(cs, e) : e \in { x \in CondEntries :
                                            \A i \in 1..Len(cs) : cs[i][1] # x[1] } } :
                 cs \in CondSeqs(n - 1) }

ConditionMaps == UNION { CondSeqs(n) : n \in 0..MaxConds }

UnsetRoute == [NoRoute EXCEPT !.kind = "unset"]

InitMatch ==
    /\ events = << >>
    /\ rules = << >>
    /\ actions = << >>
    /\ calls = [c \in Callers |-> IdleCall]
    /\ started = 0
    /\ notes = {}
    /\ queue = << >>
    /\ lastPayload = [k \in EventKeys |-> NoPayload]
    /\ fnIn \in [event : MatchEvents, conditions : ConditionMaps]
    /\ fnOut = "unset"
    /\ WorkerIdle

MatchApply ==
    /\ fnOut = "unset"
    /\ fnOut' = matches_conditions(fnIn.event, fnIn.conditions)
    /\ UNCHANGED <<events, rules, actions, calls, started, notes, queue, lastPayload, fnIn, workerVars>>

SpecMatch == InitMatch /\ [][MatchApply]_vars

-----------------------------------------------------------------------------
(* The router on its own: route_event applied to an event on a rule table  *)
(* drawn from a bounded set.                                               *)

RouteConditions ==
    { << >>,
      << <<"to_contains", <<"s", "@">> >> >>,
      << <<"from_contains", <<"z">> >> >>,
      << <<"subject_matches", <<"h", OverflowTok>> >> >> }

RouteRows(t) ==
    { [NewRuleRow(RuleInput(c, "ignore", NoConfig, p), t) EXCEPT !.enabled = en] :
        c \in RouteConditions, p \in {5, 10}, en \in BOOLEAN }

\* the tables of n rules: inserted in id order, at timestamps that never
\* decrease, then enabled or disabled by update_rule
RECURSIVE RouteTablesOf(_)
RouteTablesOf(n) ==
    IF n = 0 THEN { << >> }
    ELSE UNION { UNION { { Append(rs, row) : row \in RouteRows(t) } :
                         t \in IF rs = << >> THEN {1}
                               ELSE {rs[Len(rs)].created_at, rs[Len(rs)].created_at + 1} } :
                 rs \in RouteTablesOf(n - 1) }

RouteTables == UNION { RouteTablesOf(n) : n \in 0..MaxRouteRules }

RouteEvents ==
    { e \in MatchEvents : e.payload.attachments = << >> /\ e.email_from = <<"x">>
                          /\ e.email_subject \in { None, <<"H">> } }

InitRoute ==
    /\ events = << >>
    /\ rules \in RouteTables
    /\ actions = << >>
    /\ calls = [c \in Callers |-> IdleCall]
    /\ started = 0
    /\ notes = {}
    /\ queue = << >>
    /\ lastPayload = [k \in EventKeys |-> NoPayload]
    /\ fnIn \in [event : { [e EXCEPT !.email_to = <<"S", "@", "x">>] : e \in RouteEvents },
                 conditions : { << >> }]
    /\ fnOut = UnsetRoute
    /\ WorkerIdle

RouteApply ==
    /\ fnOut = UnsetRoute
    /\ fnOut' \in route_event(rules, fnIn.event)
    /\ UNCHANGED <<events, rules, actions, calls, started, notes, queue, lastPayload, fnIn, workerVars>>

\* route_event called once more on the same event and the same rules
RouteAgain ==
    /\ fnOut # UnsetRoute
    /\ fnOut' \in route_event(rules, fnIn.event)
    /\ UNCHANGED <<events, rules, actions, calls, started, notes, queue, lastPayload, fnIn, workerVars>>

SpecRoute == InitRoute /\ [][RouteApply \/ RouteAgain]_vars

-----------------------------------------------------------------------------
(* The worker on its own: no event, no rule.                               *)

PipelineIdle ==
    /\ events = << >>
    /\ rules = << >>
    /\ actions = << >>
    /\ calls = [c \in Callers |-> IdleCall]
    /\ started = 0
    /\ notes = {}
    /\ queue = << >>
    /\ lastPayload = [k \in EventKeys |-> NoPayload]
    /\ fnIn = NoInput
    /\ fnOut = "unset"

\* the queues that exist: all of them, or all but "default"; and the task
\* rows earlier processes left: none, or one instance in some state
InitialTables ==
    UNION { { [q \in existing |-> << >>] } \cup
            { [q \in existing |-> IF q = at THEN <<TaskRow(name, state)>> ELSE << >>] :
                at \in existing \ {"obsidian"},
                name \in {ResendScheduler, CrmDigest},
                state \in ActiveStates \cup {"failed"} } \cup
            { [q \in existing |->
                  IF q = "obsidian" THEN <<TaskRow(ObsidianScheduler, "sleeping")>>
                  ELSE << >>] } :
            existing \in { AllQueues, AllQueues \ {"default"} } }

InitSpawn ==
    /\ PipelineIdle
    /\ absurd \in InitialTables
    /\ spawns \in { [vault |-> v, runs |-> 0, proc |-> [p \in Procs |-> IdleProc]] :
                      v \in BOOLEAN }
    /\ sched = NewSched("interval_seconds" :> DefaultInterval)
    /\ _tasks = << >>
    /\ boot = BootIdle
    /\ batch = NoBatch

NextSpawn ==
    \/ \E p \in Procs : StartWorker(p)
    \/ \E p \in Procs, config \in DirectConfigs : StartSpawn(p, config)
    \/ \E p \in Procs : CheckConfig(p)
    \/ \E p \in Procs : SpawnTask(p)

SpecSpawn == InitSpawn /\ [][NextSpawn]_vars

\* worker processes only: every queue exists and is empty, and the only
\* calls are the spawn_all_schedulers of main
InitWorkers ==
    /\ PipelineIdle
    /\ absurd = [q \in AllQueues |-> << >>]
    /\ spawns \in { [vault |-> v, runs |-> 0, proc |-> [p \in Procs |-> IdleProc]] :
                      v \in BOOLEAN }
    /\ sched = NewSched("interval_seconds" :> DefaultInterval)
    /\ _tasks = << >>
    /\ boot = BootIdle
    /\ batch = NoBatch

NextWorkers ==
    \/ \E p \in Procs : StartWorker(p)
    \/ \E p \in Procs : CheckConfig(p)
    \/ \E p \in Procs : SpawnTask(p)

SpecWorkers == InitWorkers /\ [][NextWorkers]_vars

-----------------------------------------------------------------------------
(* The resend.scheduler task on its own, when no rule is configured.       *)

InitSched ==
    /\ PipelineIdle
    /\ absurd = [q \in AllQueues |-> << >>]
    /\ spawns = [vault |-> FALSE, runs |-> 0, proc |-> [p \in Procs |-> IdleProc]]
    /\ sched \in { NewSched(params) : params \in SchedParams }
    /\ _tasks = << >>
    /\ boot = BootIdle
    /\ batch = NoBatch

NextSched ==
    \/ LoopTop
    \/ SyncStep
    \/ PersistStep
    \/ AfterStep
    \/ SleepFor
    \/ WakeUp
    \/ Restart

SpecSched == InitSched /\ [][NextSched]_vars

-----------------------------------------------------------------------------
(* The registry on its own.                                                *)

\* nothing is registered yet, and a caller holds the dict get_tasks gave it
InitRegistry ==
    /\ events = << >>
    /\ rules = << >>
    /\ actions = << >>
    /\ calls = [c \in Callers |-> IdleCall]
    /\ started = 0
    /\ notes = {}
    /\ queue = << >>
    /\ lastPayload = [k \in EventKeys |-> NoPayload]
    /\ fnIn = NoInput
    /\ fnOut = << >>
    /\ WorkerIdle

NextRegistry ==
    \/ \E name \in TaskNames, fn \in Handlers : register_task(name, fn)
    \/ get_tasks
    \/ \E name \in TaskNames, fn \in Handlers : MutateCopy(name, fn)

SpecRegistry == InitRegistry /\ [][NextRegistry]_vars

-----------------------------------------------------------------------------
(* router.py: the owner of a new event.  An address is a sequence of       *)
(* characters; the inbox table is the join of auth.inboxes and             *)
(* auth.inbox_members, one row per member of an inbox.                     *)

\* email_to.split(","): the pieces between the commas, cur being the piece
\* that is read
RECURSIVE SplitComma(_, _)
SplitComma(s, cur) ==
    IF s = << >> THEN <<cur>>
    ELSE IF Head(s) = "," THEN <<cur>> \o SplitComma(Tail(s), << >>)
    ELSE SplitComma(Tail(s), Append(cur, Head(s)))

\* addr.strip()
RECURSIVE Strip(_)
Strip(s) ==
    IF s = << >> THEN s
    ELSE IF Head(s) = " " THEN Strip(Tail(s))
    ELSE IF s[Len(s)] = " " THEN Strip(SubSeq(s, 1, Len(s) - 1))
    ELSE s

InboxRow(email, user_id) == [email |-> email, user_id |-> user_id]

\* SELECT user_id ... WHERE LOWER(i.email) = addr LIMIT 1: the user_id of
\* any one of the rows that match, None when there is none
InboxOwners(inboxes, addr) ==
    LET rows == { r \in inboxes : Lower(r.email) = addr }
    IN  IF rows = {} THEN {None} ELSE { r.user_id : r \in rows }

\* the loop over the recipients: the first one that has a row
RECURSIVE owner_over(_, _)
owner_over(inboxes, addrs) ==
    IF addrs = << >> THEN {None}
    ELSE LET found == InboxOwners(inboxes, Lower(Strip(Head(addrs))))
         IN  IF found = {None} THEN owner_over(inboxes, Tail(addrs)) ELSE found

\* fault: the last recipient that has a row is taken
owner_of_last(inboxes, email_to) ==
    IF Falsy(email_to) THEN {None}
    ELSE LET addrs == SplitComma(email_to, << >>)
             hits == { i \in 1..Len(addrs) :
                         InboxOwners(inboxes, Lower(Strip(addrs[i]))) # {None} }
         IN  IF hits = {} THEN {None}
             ELSE InboxOwners(inboxes,
                              Lower(Strip(addrs[CHOOSE i \in hits : \A j \in hits : j <= i])))

\* _get_owner_for_inbox(conn, email_to): the values it may return
_get_owner_for_inbox(inboxes, email_to) ==
    IF Falsy(email_to) THEN {None}
    ELSE owner_over(inboxes, SplitComma(email_to, << >>))

\* create_event: the owner_id that goes into the INSERT
ResolveOwner(inboxes, owner_id, email_to) ==
    IF owner_id = None /\ ~Falsy(email_to)
    THEN _get_owner_for_inbox(inboxes, email_to)
    ELSE {owner_id}

InboxTables ==
    { {},
      { InboxRow(<<"A">>, <<"u1">>) },
      { InboxRow(<<"h">>, <<"u2">>) },
      { InboxRow(<<"A">>, <<"u1">>), InboxRow(<<"h">>, <<"u2">>) },
      { InboxRow(<<"A">>, <<"u1">>), InboxRow(<<"A">>, <<"u3">>) } }

EmailTos ==
    { None, << >>, <<"a">>, <<"A">>, <<" ", "a", " ">>, <<",">>, <<"s">>,
      <<"h", ",", "a">>, <<"a", ",", "h">>, <<"s", ",", " ", "H">>, <<"s", ",", "a">> }

OwnerArgs == { None, <<"u9">> }

UnsetOwner == <<"unset">>

InitOwner ==
    /\ events = << >>
    /\ rules = << >>
    /\ actions = << >>
    /\ calls = [c \in Callers |-> IdleCall]
    /\ started = 0
    /\ notes = {}
    /\ queue = << >>
    /\ lastPayload = [k \in EventKeys |-> NoPayload]
    /\ WorkerIdle
    /\ fnIn \in [inboxes : InboxTables, owner_id : OwnerArgs, email_to : EmailTos]
    /\ fnOut = UnsetOwner

OwnerApply ==
    /\ fnOut = UnsetOwner
    /\ fnOut' \in ResolveOwner(fnIn.inboxes, fnIn.owner_id, fnIn.email_to)
    /\ UNCHANGED <<events, rules, actions, calls, started, notes, queue, lastPayload, fnIn,
                   workerVars>>

SpecOwner == InitOwner /\ [][OwnerApply]_vars

-----------------------------------------------------------------------------
(* main.py: starting the worker lanes *)

\* the tasks.py files under domains/ and integrations/, in the order of the
\* two loops of discover_tasks
TaskModules ==
    <<"domains.calendar.tasks", "domains.events.tasks",
      "integrations.obsidian.tasks", "integrations.resend.tasks">>

\* the scheduler.py files under integrations/ (domains/ has none)
SchedulerModules == <<"integrations.obsidian.scheduler", "integrations.resend.scheduler">>

\* the @register_task decorators of each module
ModuleTasks(m) ==
    CASE m = "domains.calendar.tasks" ->
            {"calendar.send_invite", "calendar.send_reminders",
             "calendar.process_response", "calendar.create_interaction"}
      [] m = "domains.events.tasks" -> {"events.process", "events.process_pending"}
      [] m = "integrations.obsidian.tasks" -> {"obsidian.index", "obsidian.embed"}
      [] m = "integrations.resend.tasks" -> {"resend.sync"}
      [] m = "integrations.obsidian.scheduler" -> {"obsidian.scheduler"}
      [] m = "integrations.resend.scheduler" -> {"resend.scheduler"}

\* modules whose import statements reach outside the package (obsidian/tasks.py
\* imports notes.embeddings, which imports openai) or read the configuration:
\* in a given installation their import raises ImportError or it does not
MayFail == {"integrations.obsidian.tasks", "integrations.obsidian.scheduler"}

\* importlib.import_module(m) inside try / except ImportError.  A module in
\* sys.modules is not executed again; a module whose import raises is left
\* out of sys.modules and the loop goes on after the warning; otherwise the
\* module body runs and each decorator writes _tasks[name] = fn (a task's
\* function is named here by the task).  The import lock of the module makes
\* the body one step for the other threads.
import_module(b, tasks, m) ==
    IF m \in b.loaded \/ m \in b.broken
    THEN [boot |-> b, tasks |-> tasks]
    ELSE [boot |-> [b EXCEPT !.loaded = @ \cup {m}],
          tasks |-> [n \in DOMAIN tasks \cup ModuleTasks(m) |->
                        IF n \in ModuleTasks(m) THEN n ELSE tasks[n]]]

BootUnchanged ==
    UNCHANGED <<events, rules, actions, calls, started, notes, queue, lastPayload,
                fnIn, fnOut, absurd, spawns, sched, batch>>

\* main(): spawn_all_schedulers() first; its discover_schedulers() imports
\* the scheduler modules one after the other in the main thread
MainDiscoverSchedulers ==
    /\ boot.main.pc = "spawn"
    /\ LET r == import_module(boot, _tasks, SchedulerModules[boot.main.i])
       IN /\ _tasks' = r.tasks
          /\ boot' = [r.boot EXCEPT !.main =
                         IF boot.main.i = Len(SchedulerModules)
                         THEN [pc |-> "threads", i |-> 1]
                         ELSE [pc |-> "spawn", i |-> boot.main.i + 1]]
    /\ BootUnchanged

\* main(): for queue_name in QUEUES: Thread(target=run_worker).start()
StartThread ==
    /\ boot.main.pc = "threads"
    /\ boot' = [boot EXCEPT
                   !.lane[QUEUES[boot.main.i]].pc = "tasks",
                   !.main = IF boot.main.i = Len(QUEUES)
                            THEN [pc |-> "join", i |-> 1]
                            ELSE [pc |-> "threads", i |-> boot.main.i + 1]]
    /\ UNCHANGED _tasks
    /\ BootUnchanged

\* create_worker: discover_tasks() imports the task modules one after the other
LaneDiscoverTasks(q) ==
    /\ boot.lane[q].pc = "tasks"
    /\ LET r == import_module(boot, _tasks, TaskModules[boot.lane[q].i])
       IN /\ _tasks' = r.tasks
          /\ boot' = [r.boot EXCEPT !.lane[q] =
                         IF boot.lane[q].i = Len(TaskModules)
                         THEN [@ EXCEPT !.pc = "register", !.i = 1]
                         ELSE [@ EXCEPT !.i = @ + 1]]
    /\ BootUnchanged

\* create_worker: for task_name, task_fn in get_tasks().items():
\*                    absurd.register_task(task_name)(task_fn)
LaneRegister(q) ==
    /\ boot.lane[q].pc = "register"
    /\ boot' = [boot EXCEPT !.lane[q] =
                   [@ EXCEPT !.pc = "schedulers", !._registry = DOMAIN _tasks]]
    /\ UNCHANGED _tasks
    /\ BootUnchanged

\* create_worker: discover_schedulers() imports the scheduler modules
LaneDiscoverSchedulers(q) ==
    /\ boot.lane[q].pc = "schedulers"
    /\ LET r == import_module(boot, _tasks, SchedulerModules[boot.lane[q].i])
       IN /\ _tasks' = r.tasks
          /\ boot' = [r.boot EXCEPT !.lane[q] =
                         IF boot.lane[q].i = Len(SchedulerModules)
                         THEN [@ EXCEPT !.pc = "reregister", !.i = 1]
                         ELSE [@ EXCEPT !.i = @ + 1]]
    /\ BootUnchanged

\* create_worker: the tasks of get_tasks() not yet in absurd._registry
LaneReregister(q) ==
    /\ boot.lane[q].pc = "reregister"
    /\ boot' = [boot EXCEPT !.lane[q] =
                   [@ EXCEPT !.pc = "ready", !._registry = @ \cup DOMAIN _tasks]]
    /\ UNCHANGED _tasks
    /\ BootUnchanged

\* run_worker: absurd.start_worker(), which does not return
LaneStartWorker(q) ==
    /\ boot.lane[q].pc = "ready"
    /\ boot' = [boot EXCEPT !.lane[q].pc = "running"]
    /\ UNCHANGED _tasks
    /\ BootUnchanged

InitBoot ==
    /\ PipelineIdle
    /\ absurd = [q \in AllQueues |-> << >>]
    /\ spawns = [vault |-> FALSE, runs |-> 0, proc |-> [p \in Procs |-> IdleProc]]
    /\ sched = NewSched("interval_seconds" :> DefaultInterval)
    /\ _tasks = << >>
    /\ boot \in {[BootIdle EXCEPT !.broken = b, !.main.pc = "spawn"] : b \in SUBSET MayFail}
    /\ batch = NoBatch

NextBoot ==
    \/ MainDiscoverSchedulers
    \/ StartThread
    \/ \E q \in LaneNames : LaneDiscoverTasks(q)
    \/ \E q \in LaneNames : LaneRegister(q)
    \/ \E q \in LaneNames : LaneDiscoverSchedulers(q)
    \/ \E q \in LaneNames : LaneReregister(q)
    \/ \E q \in LaneNames : LaneStartWorker(q)

SpecBoot == InitBoot /\ [][NextBoot]_vars

-----------------------------------------------------------------------------
(* Properties *)

Terminal == {"processed", "failed", "unmatched"}

\* call c takes the step from pc value a to pc value b
Step(c, a, b) == calls[c].pc = a /\ calls'[c].pc = b

KnownConditions ==
    { "from_contains", "from_equals", "to_contains", "to_equals",
      "subject_contains", "subject_equals", "subject_matches", "body_contains",
      "has_attachment", "event_type_equals", "source_equals" }

HasUnknownKey(conditions) ==
    \E i \in 1..Len(conditions) : conditions[i][1] \notin KnownConditions

HasInvalidRegex(conditions) ==
    \E i \in 1..Len(conditions) :
        conditions[i][1] = "subject_matches" /\ re_compile(conditions[i][2]) # "ok"

\* the enabled rules whose conditions all hold on the event
Matching(rs, event) ==
    { id \in EnabledIds(rs) : matches_conditions(event, rs[id].conditions) = "true" }

\* C1: process_event on a missing or non-pending event returns a structured
\* error ('Event not found' / already processed), raises nothing, runs no
\* action and leaves the events, the rules and the ActionLog as they were.
C1_RejectedCallMutatesNothing ==
    [][\A c \in Callers :
          LET e == calls[c].event_id
          IN  (/\ calls[c].pc = "fetch"
               /\ calls'[c] # calls[c]
               /\ (e \notin EventIds \/ events[e].status # "pending"))
              => /\ calls'[c].pc = "done"
                 /\ calls'[c].result =
                       Result(IF e \notin EventIds THEN <<"Event not found">>
                              ELSE <<"Event already processed: ", events[e].status>>,
                              "", 0, 0, "", NoActionResult)
                 /\ events' = events
                 /\ rules' = rules
                 /\ actions' = actions
                 /\ notes' = notes
                 /\ queue' = queue]_vars

\* C1 witness: a call on a processed event came back with the error
C1_Witness ==
    \E c \in Callers :
        /\ calls[c].pc = "done"
        /\ calls[c].op = "process"
        /\ calls[c].result.error = <<"Event already processed: ", "processed">>

\* C2: route_event returns the first enabled rule, in (priority descending,
\* created_at ascending) order, whose conditions all hold, and none if no
\* enabled rule matches; a disabled rule is never selected.
C2_FirstMatchInOrder ==
    fnOut # UnsetRoute =>
        IF Matching(rules, fnIn.event) = {}
        THEN fnOut = NoRoute
        ELSE /\ fnOut.kind = "match"
             /\ fnOut.rule_id \in Matching(rules, fnIn.event)
             /\ \A m \in Matching(rules, fnIn.event) :
                   ~Precedes(rules[m], rules[fnOut.rule_id])

\* C3: there is one events row per (source, source_id), and it holds the
\* payload of the latest create_event call for the pair.
C3_OneRowPerKeyLatestPayload ==
    /\ \A i, j \in EventIds : KeyOf(events[i]) = KeyOf(events[j]) => i = j
    /\ \A k \in EventKeys :
          lastPayload[k] # NoPayload =>
              \E id \in EventIds : KeyOf(events[id]) = k /\ events[id].payload = lastPayload[k]
    /\ \A id \in EventIds : lastPayload[KeyOf(events[id])] # NoPayload

\* C3 witness: an existing row was ingested again with another payload,
\* after a call had fetched it
C3_Witness ==
    \E c \in Callers :
        /\ calls[c].pc = "route"
        /\ calls[c].event.payload # events[calls[c].event_id].payload
        /\ Len(events) = Cardinality(EventKeys)

\* C4: execute_action adds exactly one ActionLog row, with status running;
\* when it returns the row is completed if the handler result has success
\* true and failed otherwise; a completed or failed row never changes again.
C4_OneActionLogRowPerExecution ==
    [][/\ \A c \in Callers :
             /\ Step(c, "log_start", "handler") =>
                   /\ actions' = Append(actions, actions'[Len(actions')])
                   /\ actions'[Len(actions')].status = "running"
                   /\ calls'[c].action_id = Len(actions')
             /\ Step(c, "log_done", "final") =>
                   actions'[calls[c].action_id].status =
                       IF calls[c].outcome.exc = None /\ calls[c].outcome.result.success
                       THEN "completed" ELSE "failed"
       /\ Len(actions') # Len(actions) => \E c \in Callers : Step(c, "log_start", "handler")
       /\ \A i \in 1..Len(actions) :
             actions[i].status # "running" => actions'[i] = actions[i]]_vars

\* C4 witness: one execution ended completed and another one failed
C4_Witness ==
    \E i, j \in 1..Len(actions) :
        actions[i].status = "completed" /\ actions[j].status = "failed"

\* C5: an exception of a handler does not leave execute_action: the result
\* is {success: false, error: text}, the ActionLog row is failed with the
\* error text, and process_event ends with event status failed.
C5_HandlerExceptionIsCaught ==
    [][\A c \in Callers :
          LET exc == calls[c].outcome.exc
              e == calls[c].event_id
          IN  /\ calls[c].pc = "handler" => calls'[c].pc # "raised"
              /\ (Step(c, "log_done", "final") /\ exc # None) =>
                    /\ actions'[calls[c].action_id].status = "failed"
                    /\ actions'[calls[c].action_id].error = exc
                    /\ actions'[calls[c].action_id].action_output =
                          ActionResult(FALSE, exc, "", None, None, 0)
              /\ (Step(c, "final", "done") /\ exc # None) =>
                    /\ events'[e].status = "failed"
                    /\ calls'[c].result.status = "failed"
                    /\ calls'[c].result.action_result =
                          ActionResult(FALSE, exc, "", None, None, 0)]_vars

\* C5 witness: a call returned after its create_note handler raised
C5_Witness ==
    \E c \in Callers :
        /\ calls[c].pc = "done"
        /\ calls[c].result.action = "create_note"
        /\ calls[c].result.action_result.error = <<"KeyError">>
        /\ events[calls[c].event_id].status = "failed"

\* the row create_event would insert for the content of row
FreshRow(row) ==
    NewEventRow(KeyOf(row),
                [event_type |-> row.event_type, email_from |-> row.email_from,
                 email_to |-> row.email_to, email_subject |-> row.email_subject,
                 email_body |-> row.email_body, email_date |-> row.email_date,
                 owner_id |-> row.owner_id],
                row.payload)

\* the row a first process_event leaves of a fresh row, for routing
\* decision r and action result ar
FirstTimeRow(fresh, r, ar) ==
    IF r.kind = "none" THEN MarkUnmatched(fresh)
    ELSE [HandlerEvents(<<RecordRouting(fresh, r)>>, 1, r.action, r.action_config)[1]
             EXCEPT !.status = NewStatus(ar)]

\* what that first process_event returns
FirstTimeResult(e, r, ar) ==
    IF r.kind = "none" THEN Result(None, "unmatched", e, 0, "", NoActionResult)
    ELSE Result(None, NewStatus(ar), e, r.rule_id, r.action, ar)

\* C6: reprocess_event of an existing event first clears matched_rule_id,
\* route_result and routed_at and sets the status pending; when no other call
\* runs, its result and the final status, matched_rule_id and route_result
\* are those of a first process_event on a fresh pending event with the same
\* content under the same rules.
C6_ReprocessLikeFirstTime ==
    [][\A c \in Callers :
          LET e == calls[c].event_id
              fresh == FreshRow(events[e])
          IN  (calls[c].op = "reprocess" /\ e \in EventIds) =>
                /\ Step(c, "reset", "fetch") => events'[e] = fresh
                /\ (~Over(calls[c]) /\ calls'[c].pc = "done") =>
                      \E r \in route_event(rules, Snapshot(fresh)) :
                          LET ar == calls'[c].result.action_result
                              end == FirstTimeRow(fresh, r, ar)
                          IN  /\ r.kind \in {"match", "none"}
                              /\ calls'[c].result = FirstTimeResult(e, r, ar)
                              /\ events'[e].status = end.status
                              /\ events'[e].matched_rule_id = end.matched_rule_id
                              /\ events'[e].route_result = end.route_result
                /\ (~Over(calls[c]) /\ calls'[c].pc = "raised") =>
                      /\ \E r \in route_event(rules, Snapshot(fresh)) :
                            calls'[c].exc = <<r.kind>>
                      /\ events'[e] = fresh]_vars

\* C6 witness: an event that an action was run for is reprocessed and ends
\* unmatched, with its routing columns cleared
C6_Witness ==
    \E c \in Callers :
        /\ calls[c].pc = "done"
        /\ calls[c].op = "reprocess"
        /\ calls[c].result.status = "unmatched"
        /\ \E i \in 1..Len(actions) : actions[i].event_id = calls[c].event_id
        /\ events[calls[c].event_id].route_result = NullRoute

\* C7: matches_conditions raises nothing, and returns false whenever the
\* conditions hold an unknown key or a subject_matches value that is not a
\* valid regular expression, whatever the other conditions and the event.
C7_MatcherFailsClosed ==
    fnOut # "unset" =>
        /\ fnOut \in {"true", "false"}
        /\ (HasUnknownKey(fnIn.conditions) \/ HasInvalidRegex(fnIn.conditions)) =>
              fnOut = "false"

\* C8: the status of an event only goes from pending to processed, failed
\* or unmatched, except that reprocess_event sets it back to pending; no
\* terminal status becomes another terminal status.
C8_StatusOnlyLeavesPending ==
    [][\A e \in EventIds :
          events'[e].status # events[e].status =>
              \/ events[e].status = "pending" /\ events'[e].status \in Terminal
              \/ /\ events'[e].status = "pending"
                 /\ \E c \in Callers :
                       Step(c, "reset", "fetch") /\ calls[c].event_id = e]_vars

\* the tag list of the rule a returned call matched
TagsOfCall(c) == TagsOf(rules[calls[c].result.rule_id].action_config)

\* a process_event that matched a tag rule with a non-empty tag list returned
TagCallDone(c) ==
    /\ calls[c].pc = "done"
    /\ calls[c].result.action = "tag"
    /\ TagsOfCall(c) # << >>

\* C9 as stated: after a pending event matched an enabled tag rule with the
\* non-empty tag list T, the event is processed and its stored route_result
\* has tags_added equal to T.
C9_StoredTagsAdded ==
    \A c \in Callers :
        TagCallDone(c) =>
            /\ events[calls[c].event_id].status = "processed"
            /\ events[calls[c].event_id].route_result.tags_added = TagsOfCall(c)

\* C9: after a pending event matched an enabled tag rule with the non-empty
\* tag list T, the event is processed, its stored route_result has the key
\* tags equal to T beside rule_id, action and action_config, and tags_added
\* equal to T is in the action result that is returned, not in the row.
C9_StoredTagsReturnedTagsAdded ==
    \A c \in Callers :
        TagCallDone(c) =>
            LET row == events[calls[c].event_id]
            IN  /\ row.status = "processed"
                /\ row.route_result.tags = TagsOfCall(c)
                /\ row.route_result.tags_added = None
                /\ row.route_result.rule_id = calls[c].result.rule_id
                /\ row.route_result.action = "tag"
                /\ calls[c].result.status = "processed"
                /\ calls[c].result.action_result.tags_added = TagsOfCall(c)

\* C9 witness: the event to S@x matched the rule that tags it support
C9_Witness ==
    \E c \in Callers :
        /\ TagCallDone(c)
        /\ TagsOfCall(c) = <<"support">>
        /\ events[calls[c].event_id].status = "processed"

\* C10: when no enabled rule matches a pending event, process_event sets its
\* status to unmatched and stamps routed_at, leaves matched_rule_id null, adds
\* no ActionLog row, changes no match_count, and returns status unmatched
\* without an error.
C10_UnmatchedLeavesNoTrace ==
    [][\A c \in Callers :
          LET e == calls[c].event_id
          IN  /\ (calls[c].pc \in {"fetch", "route"} /\ calls'[c] # calls[c]) =>
                    actions' = actions /\ rules' = rules /\ events' = events
              /\ (calls[c].pc = "write" /\ calls[c].route.kind = "none"
                    /\ calls'[c] # calls[c]) =>
                    /\ calls'[c].pc = "done"
                    /\ calls'[c].result = Result(None, "unmatched", e, 0, "", NoActionResult)
                    /\ events'[e].status = "unmatched"
                    /\ events'[e].routed_at = "set"
                    /\ events'[e].matched_rule_id = 0
                    /\ actions' = actions
                    /\ rules' = rules]_vars

\* C10 witness: a call returned unmatched
C10_Witness ==
    \E c \in Callers :
        /\ calls[c].pc = "done"
        /\ calls[c].result.status = "unmatched"
        /\ events[calls[c].event_id].status = "unmatched"
        /\ events[calls[c].event_id].routed_at = "set"

\* the call routed to a spawn_task rule whose action_config has no task_name
SpawnWithoutName(c) ==
    /\ calls[c].route.action = "spawn_task"
    /\ Falsy(calls[c].route.action_config.task_name)

\* C11: when the matched rule's action is spawn_task and action_config has
\* no task_name or an empty one, the action returns {success: false, error:
\* "No task_name specified"}, no task is enqueued on any queue, the ActionLog
\* row ends failed and the event ends with status failed.
C11_SpawnWithoutTaskNameFails ==
    [][\A c \in Callers :
          LET e == calls[c].event_id
              failure == ActionResult(FALSE, <<"No task_name specified">>, "", None, None, 0)
          IN  SpawnWithoutName(c) =>
                /\ calls'[c] # calls[c] => queue' = queue /\ absurd' = absurd
                /\ Step(c, "handler", "log_done") => calls'[c].outcome = Returned(failure)
                /\ Step(c, "log_done", "final") =>
                      /\ actions'[calls[c].action_id].status = "failed"
                      /\ actions'[calls[c].action_id].action_output = failure
                /\ Step(c, "final", "done") =>
                      /\ events'[e].status = "failed"
                      /\ calls'[c].result.status = "failed"
                      /\ calls'[c].result.action_result = failure]_vars

\* C11 witness: the call returned, the event is failed and no task is queued
C11_Witness ==
    \E c \in Callers :
        /\ calls[c].pc = "done"
        /\ calls[c].result.action = "spawn_task"
        /\ calls[c].result.action_result.error = <<"No task_name specified">>
        /\ events[calls[c].event_id].status = "failed"
        /\ queue = << >>

\* C13: (priority descending, created_at ascending) is a strict total order
\* on the enabled rules, and a second route_event on the same event with
\* the same rules returns what the first one returned, also when two
\* matching rules have the same priority and the same created_at.
C13_RoutingIsReproducible ==
    [][/\ \A a, b \in EnabledIds(rules) :
             a # b => Precedes(rules[a], rules[b]) \/ Precedes(rules[b], rules[a])
       /\ fnOut # UnsetRoute => fnOut' = fnOut]_vars

\* C17: for a process_event that matched a rule and returned, the status of
\* the event is processed if and only if the action result has success
\* true, and failed otherwise; the returned status is the stored one.
C17_StatusFollowsActionResult ==
    \A c \in Callers :
        (calls[c].pc = "done" /\ calls[c].result.rule_id # 0) =>
            /\ events[calls[c].event_id].status = calls[c].result.status
            /\ calls[c].result.status =
                  IF calls[c].result.action_result.success THEN "processed" ELSE "failed"

\* C17 witness: one call ended failed on a result without success
C17_Witness ==
    \E c \in Callers :
        /\ calls[c].pc = "done"
        /\ calls[c].result.rule_id # 0
        /\ ~calls[c].result.action_result.success
        /\ events[calls[c].event_id].status = "failed"

\* the sync steps of the iterations up to i that failed in a row, counted
\* on the stored results
RECURSIVE FailedInARow(_, _)
FailedInARow(steps, i) ==
    IF i = 0 \/ SyncStepName(i) \notin DOMAIN steps THEN 0
    ELSE IF Falsy(steps[SyncStepName(i)].error) THEN 0
    ELSE 1 + FailedInARow(steps, i - 1)

\* C12: after k sync steps failed in a row the sleep that follows the k-th
\* failure lasts min(base * 2^k, max): with base 60 and max 3600 the second
\* failure in a row is followed by a sleep of 240; no sleep after a failure
\* is longer than max.
C12_BackoffAfterKFailures ==
    [][/\ (sched.run.pc = "after" /\ sched'.run.pc = "sleep"
             /\ ~Falsy(sched.run.result.error)) =>
            LET k == FailedInARow(sched.steps, sched.run.iteration)
                base == interval_seconds(sched.params)
                max == max_interval_seconds(sched.params)
            IN  /\ k >= 1
                /\ sched'.run.consecutive_errors = k
                /\ sched'.run.duration = Min(base * (2 ^ k), max)
                /\ sched'.run.duration <= max
       /\ (sched.run.pc = "sleep" /\ sched'.run.pc # "sleep" /\ sched'.crashes = sched.crashes
             /\ WaitStepName(sched.run.iteration) \notin DOMAIN sched.sleeps) =>
            sched'.sleeps[WaitStepName(sched.run.iteration)] = sched.now + sched.run.duration]_vars

\* C12 witness: base 60, max 3600, the second failure in a row, a sleep of 240
C12_Witness ==
    /\ interval_seconds(sched.params) = 60
    /\ max_interval_seconds(sched.params) = 3600
    /\ sched.run.pc = "sleep"
    /\ sched.run.consecutive_errors = 2
    /\ sched.run.duration = 240
    /\ sched.log = LogLine(sched.run.iteration, "error", 240)

\* the run is where the run before the restart or the suspension had got to
SamePlace(run, reached) ==
    /\ run.iteration = reached.iteration
    /\ run.pc = reached.pc \/ (reached.pc = "sleep" /\ run.pc = "top")

\* C19: when the worker restarts in the middle of the loop, also during a
\* sleep, the task goes on at the next scheduled wake time with the
\* iteration and the consecutive_errors it had reached, and the sync step
\* of an iteration whose result is stored is not executed again.
C19_RestartResumesLoop ==
    [][/\ \A i \in 1..MaxIter :
             sched'.execs[i] > sched.execs[i] => SyncStepName(i) \notin DOMAIN sched.steps
       /\ \A n \in DOMAIN sched.steps :
             n \in DOMAIN sched'.steps /\ sched'.steps[n] = sched.steps[n]
       /\ \A n \in DOMAIN sched.sleeps :
             n \in DOMAIN sched'.sleeps /\ sched'.sleeps[n] = sched.sleeps[n]
       /\ \A i \in 2..MaxIter :
             (WaitStepName(i) \in DOMAIN sched'.sleeps) =>
                /\ WaitStepName(i - 1) \in DOMAIN sched'.sleeps
                /\ sched'.sleeps[WaitStepName(i)] >=
                      sched'.sleeps[WaitStepName(i - 1)]
                        + Min(interval_seconds(sched.params), max_interval_seconds(sched.params))
       /\ (sched.run.pc = "suspended" /\ sched'.run.pc = "suspended") =>
             sched'.wake_at = sched.wake_at /\ sched'.now = sched.now
       /\ (sched.run.pc = "suspended" /\ sched'.run.pc # "suspended") =>
             sched'.now = sched.wake_at
       /\ SamePlace(sched'.run, sched'.reached) =>
             sched'.run.consecutive_errors = sched'.reached.consecutive_errors]_vars

\* C19 witness: the worker restarted during a sleep that followed a failed
\* sync; the task woke, ran again from the top and is in its next
\* iteration with the error count it had, the first sync executed once
C19_Witness ==
    /\ sched.restarted = "sleeping"
    /\ sched.run.pc = "sync"
    /\ sched.run.iteration = sched.reached.iteration + 1
    /\ sched.run.iteration >= 2
    /\ sched.run.consecutive_errors = sched.reached.consecutive_errors
    /\ sched.run.consecutive_errors >= 1
    /\ sched.execs[1] = 1

\* C20: whenever a call to the external API fails inside a sync step, the
\* listing or the fetch of one email, the scheduler reports the failure
\* with the delay it computed and sleeps the backoff: the failure is not
\* counted as a success.
C20_ApiFailureIsReported ==
    (sched.run.pc = "sleep" /\ sched.run.result.api_failed) =>
        /\ sched.run.consecutive_errors >= 1
        /\ sched.run.duration =
              Backoff(interval_seconds(sched.params), max_interval_seconds(sched.params),
                      sched.run.consecutive_errors)
        /\ sched.log = LogLine(sched.run.iteration, "error", sched.run.duration)

\* process p takes the decision of spawn_scheduler on the descriptor at hand
Decides(p) ==
    /\ spawns.proc[p].pc = "check"
    /\ spawns'.runs = spawns.runs
    /\ spawns'.proc[p] # spawns.proc[p]

\* C14: for every descriptor with singleton true, whatever its task_name and
\* queue, spawn_scheduler spawns nothing and answers spawned false,
\* already_running whenever an instance of the task_name is pending, running
\* or sleeping in any queue lane, and goes on to spawn only when there is
\* none.
C14_SingletonNeverSpawnsTwice ==
    [][\A p \in Procs :
          LET proc == spawns.proc[p]
              config == Head(proc.todo)
          IN  (Decides(p) /\ proc.run = "one" /\ config.singleton = PyTrue) =>
                 IF IsActive(absurd, config.task_name)
                 THEN /\ spawns'.proc[p].pc # "spawn"
                      /\ spawns'.proc[p].results =
                            <<SpawnResult(FALSE, "already_running", config.task_name)>>
                 ELSE spawns'.proc[p].pc = "spawn"]_vars

\* C15: under any interleaving of spawn_all_schedulers runs, two workers
\* that start together or a worker that restarts, at most one instance of
\* a singleton periodic task is active.
C15_OneInstanceOfSingleton ==
    \A i \in 1..2 :
        LET config == discover_schedulers(spawns.vault)[i]
        IN  IsSingleton(config) => ActiveCount(absurd, config.task_name) <= 1

\* C16: spawn_all_schedulers never spawns a descriptor whose enabled is
\* false, whether an instance is active or not; it reports spawned false
\* with the reason disabled, which is not already_running; a descriptor
\* without the field enabled counts as enabled.
C16_DisabledIsNeverSpawned ==
    [][\A p \in Procs :
          LET proc == spawns.proc[p]
              config == Head(proc.todo)
          IN  (Decides(p) /\ proc.run = "all") =>
                 /\ config.enabled = PyFalse =>
                       /\ spawns'.proc[p].pc # "spawn"
                       /\ spawns'.proc[p].results =
                             Append(proc.results,
                                    SpawnResult(FALSE, "disabled", config.task_name))
                       /\ absurd' = absurd
                 /\ config.enabled = None =>
                       /\ spawns'.proc[p].pc = "spawn" \/
                             spawns'.proc[p].results =
                                Append(proc.results,
                                       SpawnResult(FALSE, "already_running", config.task_name))
                       /\ spawns'.proc[p].pc = "spawn" \/
                             config.task_name \in get_running_schedulers(absurd)]_vars

\* C16 witness: a run of spawn_all_schedulers ended while an instance of
\* the disabled descriptor's task sleeps; it was reported disabled and no
\* task was added for it, the descriptor without the field was spawned
C16_Witness ==
    \E p \in Procs :
        /\ spawns.proc[p].pc = "done"
        /\ spawns.proc[p].run = "all"
        /\ spawns.proc[p].results =
              <<SpawnResult(FALSE, "disabled", ObsidianScheduler),
                SpawnResult(TRUE, "", ResendScheduler)>>
        /\ ActiveCount(absurd, ObsidianScheduler) = 1
        /\ ActiveCount(absurd, ResendScheduler) = 1

\* C18: the registry is append-only: once a handler is registered under a
\* name, no later operation, a second register_task with the same name or
\* a change made to the dict get_tasks returned, replaces or removes it.
C18_RegistryIsAppendOnly ==
    [][\A name \in DOMAIN _tasks :
          name \in DOMAIN _tasks' /\ _tasks'[name] = _tasks[name]]_vars

\* C21: two process_event calls on the same pending event can both pass
\* the status check before either writes a terminal status, and both then
\* execute the action: the status is read at the fetch only, so each call
\* that passed it counts the rule once more and adds its own ActionLog row;
\* a state with two rows of one pending period and a count of two is
\* reachable (the witness).
C21_BothCallsExecute ==
    [][\A c \in Callers :
          LET e == calls[c].event_id
          IN  /\ Step(c, "fetch", "route") => events[e].status = "pending"
              /\ Step(c, "write", "log_start") =>
                    rules'[calls[c].route.rule_id].match_count =
                       rules[calls[c].route.rule_id].match_count + 1
              /\ Step(c, "log_start", "handler") =>
                    /\ Len(actions') = Len(actions) + 1
                    /\ actions'[Len(actions')].event_id = e
                    /\ actions'[Len(actions')].status = "running"]_vars

\* C21 witness: two process_event calls are past the status check on the
\* same event, which is still pending; it has two ActionLog rows and the
\* rule both matched was counted twice
C21_Witness ==
    \E e \in EventIds, id \in RuleIds :
        /\ \A c \in Callers :
              /\ calls[c].op = "process"
              /\ calls[c].event_id = e
              /\ calls[c].pc \in {"handler", "log_done", "final"}
              /\ calls[c].route.rule_id = id
        /\ events[e].status = "pending"
        /\ Len(actions) = 2
        /\ \A a \in 1..2 : actions[a].event_id = e
        /\ rules[id].match_count = 2

\* C22: for a matched event process_event commits the routing decision
\* (matched_rule_id, route_result, routed_at) and the rule statistics
\* first, then writes the ActionLog row with status running, then runs the
\* handler, then finalizes the ActionLog row, and only then writes the
\* terminal status; while the handler runs the status is still pending.
C22_StepsInOrder ==
    [][\A c \in Callers :
          LET e == calls[c].event_id
              id == calls[c].route.rule_id
              a == calls[c].action_id
          IN  /\ Step(c, "write", "log_start") =>
                    /\ events'[e].matched_rule_id = id
                    /\ events'[e].route_result = RouteJson(calls[c].route)
                    /\ events'[e].routed_at = "set"
                    /\ events'[e].status = "pending"
                    /\ rules'[id].match_count = rules[id].match_count + 1
                    /\ actions' = actions
              /\ Step(c, "log_start", "handler") =>
                    /\ events[e].matched_rule_id = id
                    /\ events[e].routed_at = "set"
                    /\ rules[id].match_count >= 1
                    /\ events' = events
                    /\ events[e].status = "pending"
                    /\ actions'[Len(actions')].status = "running"
                    /\ notes' = notes /\ queue' = queue
              /\ Step(c, "handler", "log_done") =>
                    /\ actions[a].status = "running"
                    /\ actions' = actions
                    /\ events[e].status = "pending"
                    /\ events'[e].status = "pending"
              /\ Step(c, "log_done", "final") =>
                    /\ actions'[a].status \in {"completed", "failed"}
                    /\ events' = events
                    /\ events[e].status = "pending"
              /\ Step(c, "final", "done") =>
                    /\ actions[a].status \in {"completed", "failed"}
                    /\ actions' = actions
                    /\ events[e].status = "pending"
                    /\ events'[e].status \in {"processed", "failed"}]_vars

\* C22 witness: the handler of a tag rule has run; the routing decision is
\* stored, the ActionLog row is still running and the event still pending
C22_Witness ==
    \E c \in Callers :
        /\ calls[c].pc = "log_done"
        /\ calls[c].route.action = "tag"
        /\ events[calls[c].event_id].matched_rule_id = calls[c].route.rule_id
        /\ events[calls[c].event_id].status = "pending"
        /\ actions[calls[c].action_id].status = "running"

\* the calls that select rule id in this step
Selecting(id) ==
    { c \in Callers : Step(c, "write", "log_start") /\ calls[c].route.rule_id = id }

\* C28: the match_count of a rule never decreases; it grows by exactly 1
\* in the step in which a process_event call, first-time or through
\* reprocess_event, selects the rule, and by 0 in every other step:
\* unmatched events, rejected events, rules that were not selected.
C28_MatchCountCountsSelections ==
    [][\A id \in RuleIds :
          /\ rules'[id].match_count >= rules[id].match_count
          /\ rules'[id].match_count =
                rules[id].match_count + Cardinality(Selecting(id))
          /\ \A c \in Callers :
                (Step(c, "fetch", "done") \/ Step(c, "write", "done")) => rules' = rules]_vars

\* C28 witness: a rule was selected by a first-time call and again through
\* reprocess_event and has a count of two
C28_Witness ==
    \E id \in RuleIds, c \in Callers :
        /\ rules[id].match_count = 2
        /\ calls[c].pc = "done"
        /\ calls[c].op = "reprocess"
        /\ calls[c].result.rule_id = id

\* the call is routed to a rule whose action is none of the four
UnknownAction(c) ==
    /\ calls[c].route.kind = "match"
    /\ calls[c].route.action \notin {"create_note", "tag", "ignore", "spawn_task"}

\* C29: when the action of the matched rule is none of create_note, tag,
\* ignore, spawn_task, execute_action returns {success: false, error:
\* "Unknown action: <name>"} and does not raise, the ActionLog row ends
\* failed, the event ends failed, and process_event returns to its caller.
C29_UnknownActionFails ==
    [][\A c \in Callers :
          LET e == calls[c].event_id
              failure == ActionResult(FALSE, <<"Unknown action: ", calls[c].route.action>>,
                                      "", None, None, 0)
          IN  UnknownAction(c) =>
                /\ Step(c, "handler", "log_done") =>
                      /\ calls'[c].outcome = Returned(failure)
                      /\ notes' = notes /\ queue' = queue /\ events' = events
                /\ Step(c, "log_done", "final") =>
                      /\ actions'[calls[c].action_id].status = "failed"
                      /\ actions'[calls[c].action_id].action_output = failure
                /\ calls[c].pc = "final" =>
                      /\ calls'[c].pc \in {"final", "done"}
                      /\ Step(c, "final", "done") =>
                            /\ events'[e].status = "failed"
                            /\ calls'[c].result.status = "failed"
                            /\ calls'[c].result.action_result = failure
                /\ calls'[c].pc # "raised"]_vars

\* C29 witness: the call returned with the unknown action's failure
C29_Witness ==
    \E c \in Callers :
        /\ calls[c].pc = "done"
        /\ calls[c].result.action = "archive"
        /\ calls[c].result.action_result.error = <<"Unknown action: ", "archive">>
        /\ events[calls[c].event_id].status = "failed"
        /\ actions[Len(actions)].status = "failed"

\* the loop leaves the branch on the result of a sync that failed, or of
\* one that did not
FailureBranch == sched.run.pc = "after" /\ sched'.run.pc = "sleep" /\ ~Falsy(sched.run.result.error)
SuccessBranch == sched.run.pc = "after" /\ sched'.run.pc = "sleep" /\ Falsy(sched.run.result.error)

\* C23: on a failed sync step the loop computes the backoff with the value
\* consecutive_errors had before this failure is counted,
\* min(base * 2^consecutive_errors, max), sleeps that long and increments
\* afterwards: the first failure after a success sleeps min(base, max).
C23_BackoffBeforeIncrement ==
    [][FailureBranch =>
          /\ sched'.run.duration =
                Min(interval_seconds(sched.params) * (2 ^ sched.run.consecutive_errors),
                    max_interval_seconds(sched.params))
          /\ sched'.run.consecutive_errors = sched.run.consecutive_errors + 1
          /\ sched.run.consecutive_errors = 0 =>
                sched'.run.duration = Min(interval_seconds(sched.params),
                                          max_interval_seconds(sched.params))]_vars

\* C24: every sync step that succeeds resets consecutive_errors to 0 and
\* is followed by a sleep of exactly base_interval, so the backoff after
\* the next failure depends only on the failures since the last success.
C24_SuccessResets ==
    [][/\ SuccessBranch =>
             /\ sched'.run.consecutive_errors = 0
             /\ sched'.run.duration = interval_seconds(sched.params)
       /\ (sched.run.pc = "sleep" /\ sched'.run.pc # "sleep" /\ sched'.crashes = sched.crashes
             /\ Falsy(sched.run.result.error)
             /\ WaitStepName(sched.run.iteration) \notin DOMAIN sched.sleeps) =>
             sched'.sleeps[WaitStepName(sched.run.iteration)] =
                sched.now + interval_seconds(sched.params)
       /\ FailureBranch =>
             sched'.run.duration =
                Backoff(interval_seconds(sched.params), max_interval_seconds(sched.params),
                        FailedInARow(sched.steps, sched.run.iteration))]_vars

\* C24 witness: a failure, a success, a failure: the second failure backs
\* off as a first one, after a success that slept the base interval
C24_Witness ==
    /\ interval_seconds(sched.params) = 60
    /\ max_interval_seconds(sched.params) = 3600
    /\ sched.run.pc = "sleep"
    /\ sched.run.iteration = 3
    /\ ~Falsy(sched.steps[SyncStepName(1)].error)
    /\ Falsy(sched.steps[SyncStepName(2)].error)
    /\ sched.sleeps[WaitStepName(2)] = sched.sleeps[WaitStepName(1)] + 60
    /\ ~Falsy(sched.run.result.error)
    /\ sched.run.consecutive_errors = 1
    /\ sched.run.duration = 120

\* what the entries of a conditions map evaluate to, one by one
EntryResults(event, conditions) ==
    [i \in 1..Len(conditions) |->
        _check_condition(event, conditions[i][1], conditions[i][2])]

\* C25: matches_conditions(event, conditions) is true if and only if every
\* entry of the map evaluates to true on the event, and one failing entry
\* makes the result false whatever the other entries and whatever the
\* order of the entries.
C25_ConjunctionOfEntries ==
    fnOut # "unset" =>
        LET r == EntryResults(fnIn.event, fnIn.conditions)
        IN  /\ fnOut = "true" <=> \A i \in DOMAIN r : r[i] = "true"
            /\ (\E i \in DOMAIN r : r[i] = "false") => fnOut = "false"

\* the event field a condition kind reads
FieldOf(event, kind) ==
    CASE kind \in {"from_contains", "from_equals"} -> event.email_from
      [] kind \in {"to_contains", "to_equals"} -> event.email_to
      [] kind \in {"subject_contains", "subject_equals", "subject_matches"} ->
            event.email_subject
      [] kind = "body_contains" -> event.email_body
      [] kind = "event_type_equals" -> event.event_type
      [] kind = "source_equals" -> event.source

FieldKinds == KnownConditions \ {"has_attachment"}

\* the map's first entry reads a field the event has not, or has null or
\* empty, and expects a value that is not empty
BlankFieldFirst(event, conditions) ==
    /\ conditions # << >>
    /\ conditions[1][1] \in FieldKinds
    /\ FieldOf(event, conditions[1][1]) \in {None, << >>}
    /\ conditions[1][2] \notin {None, << >>}

\* C26: for every condition kind that reads a field (from/to/subject
\* contains/equals, subject_matches, body_contains, event_type_equals,
\* source_equals), when the field is absent, null or empty and the
\* expected value is not empty, the condition evaluates to false.
C26_BlankFieldIsFalse ==
    \A i \in 1..Len(fnIn.conditions) :
        LET kind == fnIn.conditions[i][1]
            value == fnIn.conditions[i][2]
        IN  (kind \in FieldKinds /\ FieldOf(fnIn.event, kind) \in {None, << >>}
               /\ value \notin {None, << >>}) =>
               /\ _check_condition(fnIn.event, kind, value) = "false"
               /\ (i = 1 /\ fnOut # "unset") => fnOut = "false"

\* C26 witness: the matcher returned false on a map whose first entry reads
\* the recipient, which the event has as null
C26_Witness ==
    /\ fnOut = "false"
    /\ BlankFieldFirst(fnIn.event, fnIn.conditions)
    /\ fnIn.conditions[1][1] = "to_equals"
    /\ fnIn.event.email_to = None

\* the recipients of email_to that have a row in the inbox table, by
\* their place in the list
Hits(inboxes, email_to) ==
    LET addrs == SplitComma(email_to, << >>)
    IN  { i \in 1..Len(addrs) :
            \E r \in inboxes : Lower(r.email) = Lower(Strip(addrs[i])) }

\* C27: create_event resolves owner_id only when the caller passed none
\* and email_to is present: the comma-separated recipients are tried in
\* their order, trimmed and without regard to case, against the inbox
\* addresses, and the owner of the first recipient that matches is taken;
\* an owner_id of the caller is never replaced, and the owner is null when
\* no recipient matches.
C27_OwnerOfFirstMatchingRecipient ==
    fnOut # UnsetOwner =>
        IF fnIn.owner_id # None THEN fnOut = fnIn.owner_id
        ELSE IF fnIn.email_to \in {None, << >>} THEN fnOut = None
        ELSE LET addrs == SplitComma(fnIn.email_to, << >>)
                 hits == Hits(fnIn.inboxes, fnIn.email_to)
             IN  IF hits = {} THEN fnOut = None
                 ELSE LET first == CHOOSE i \in hits : \A j \in hits : i <= j
                      IN  \E r \in fnIn.inboxes :
                             /\ Lower(r.email) = Lower(Strip(addrs[first]))
                             /\ fnOut = r.user_id

\* C27 witness: no owner passed, the second recipient, written " H", is
\* the first that matches an inbox, and its owner is taken
C27_Witness ==
    /\ fnIn.owner_id = None
    /\ fnIn.email_to = <<"s", ",", " ", "H">>
    /\ fnIn.inboxes = { InboxRow(<<"A">>, <<"u1">>), InboxRow(<<"h">>, <<"u2">>) }
    /\ fnOut = <<"u2">>

\* C30: when a lane calls start_worker, every task of every task module and
\* scheduler module is in the registry and registered with that lane's
\* worker; and while any lane is running nothing is registered, neither
\* in the registry nor with the worker of a lane.
AllModules ==
    {TaskModules[i] : i \in 1..Len(TaskModules)}
        \cup {SchedulerModules[i] : i \in 1..Len(SchedulerModules)}

TasksOf(ms) == UNION {ModuleTasks(m) : m \in ms}

LaneRunning == \E q \in LaneNames : boot.lane[q].pc = "running"

C30_RegistryFullBeforeLanes ==
    [][/\ \A q \in LaneNames :
            boot.lane[q].pc = "ready" /\ boot'.lane[q].pc = "running"
                => /\ TasksOf(AllModules) \subseteq DOMAIN _tasks
                   /\ TasksOf(AllModules) \subseteq boot.lane[q]._registry
       /\ LaneRunning
            => /\ _tasks' = _tasks
               /\ \A q \in LaneNames : boot'.lane[q]._registry = boot.lane[q]._registry]_vars
\* C31: a process that dies between the commit of the routing decision and
\* the write of the terminal status leaves the event pending with
\* matched_rule_id set and takes nothing back; an ActionLog row that is
\* running and belongs to no call in flight is never written again; a later
\* process_event on the event passes the pending guard, and its execution
\* inserts a new ActionLog row and leaves the old rows as they are.
InFlightRow(i) ==
    \E c \in Callers : calls[c].pc \in {"handler", "log_done"} /\ calls[c].action_id = i

C31_CrashLeavesPendingAndRunning ==
    [][/\ \A c \in Callers :
            calls[c].pc \in AfterRouting /\ calls'[c].pc = "crashed"
                => /\ events' = events
                   /\ actions' = actions
                   /\ events[calls[c].event_id].status = "pending"
                   /\ events[calls[c].event_id].matched_rule_id # 0
       /\ \A i \in 1..Len(actions) :
            actions[i].status = "running" /\ ~InFlightRow(i) => actions'[i] = actions[i]
       /\ \A c \in Callers :
            /\ calls[c].pc = "fetch" /\ calls'[c].pc # "fetch"
            /\ calls[c].event_id \in EventIds
            /\ events[calls[c].event_id].status = "pending"
            => calls'[c].pc = "route"
       /\ \A c \in Callers :
            Step(c, "log_start", "handler")
                => /\ Len(actions') = Len(actions) + 1
                   /\ \A i \in 1..Len(actions) : actions'[i] = actions[i]
                   /\ actions'[Len(actions')].status = "running"
                   /\ calls'[c].action_id = Len(actions')]_vars

\* C31 witness: the row of the call that died is still running when the
\* second execution of the same event is over and the event is terminal
C31_Witness ==
    /\ AllOver
    /\ Len(actions) = 2
    /\ actions[1].event_id = actions[2].event_id
    /\ actions[1].status = "running"
    /\ actions[2].status \in {"completed", "failed"}
    /\ events[actions[1].event_id].status \in Terminal
\* C32: when no call on an event is in flight, an unmatched event has no
\* matched_rule_id and has routed_at set, and a processed or failed event
\* has matched_rule_id and route_result set and at least one ActionLog row.
Quiet(e) == \A c \in Callers : Over(calls[c]) \/ calls[c].event_id # e

C32_TerminalRowIsConsistent ==
    \A e \in EventIds :
        Quiet(e) =>
            /\ events[e].status = "unmatched"
                => events[e].matched_rule_id = 0 /\ events[e].routed_at = "set"
            /\ events[e].status \in {"processed", "failed"}
                => /\ events[e].matched_rule_id # 0
                   /\ ~events[e].route_result.null
                   /\ \E i \in 1..Len(actions) : actions[i].event_id = e
\* C33: create_event on a (source, source_id) that exists changes the payload
\* of that row and nothing else: the status, the routing columns, the event
\* type, the owner and the email columns keep their values, whatever the
\* arguments of the call are; no other row changes and no call is started.
Existing(key) == \E id \in EventIds : KeyOf(events[id]) = key

C33_ReingestChangesPayloadOnly ==
    [][fnOut' # fnOut /\ Existing(<<"resend", "m1">>)
        => /\ Len(events') = Len(events)
           /\ \A id \in EventIds :
                IF KeyOf(events[id]) = <<"resend", "m1">>
                THEN /\ events'[id] = [events[id] EXCEPT !.payload = lastPayload'[KeyOf(events[id])]]
                     /\ fnOut' = events'[id]
                ELSE events'[id] = events[id]
           /\ UNCHANGED <<rules, actions, calls, started, notes, queue>>]_vars

\* C33 witness: the call has returned the row of a terminal event, which holds
\* the payload just given and none of the other arguments of the call
C33_Witness ==
    /\ fnOut.status \in Terminal
    /\ fnOut.payload = [rev |-> 2, attachments |-> <<"f">>]
    /\ fnOut.event_type # AltContent.event_type
    /\ fnOut.owner_id # AltContent.owner_id
    /\ fnOut.email_subject # AltContent.email_subject
    /\ \E id \in EventIds : events[id] = fnOut
\* C34: a sync step writes no row that existed before the step: it calls
\* process_event only on the event it has just created, so an event that an
\* earlier step left pending stays pending through every later step of the
\* scheduler.
C34_SyncSkipsExistingEvents ==
    [][\A id \in EventIds :
          /\ events'[id] = events[id]
          /\ events[id].status = "pending" => events'[id].status = "pending"]_vars

\* C34 witness: the event of the email was left pending by the first sync
\* step, and the third sync step has run and returned without an error
C34_Witness ==
    /\ Len(events) = 1
    /\ events[1].status = "pending"
    /\ sched.run.iteration = 3
    /\ sched.run.pc = "after"
    /\ sched.run.result.error = None
    /\ SyncStepName(1) \in DOMAIN sched.steps
    /\ sched.steps[SyncStepName(1)].created = 1
\* C35: a rule with an empty conditions map matches every event; when an
\* enabled rule with empty conditions exists, route_event never returns
\* "no match", and it never selects a rule that the order (priority
\* descending, created_at ascending) puts after that rule.
CatchAll(rs) == { id \in EnabledIds(rs) : rs[id].conditions = << >> }

C35_EmptyConditionsCatchAll ==
    /\ matches_conditions(fnIn.event, << >>) = "true"
    /\ fnOut # UnsetRoute /\ CatchAll(rules) # {}
        => /\ fnOut # NoRoute
           /\ fnOut.kind = "match"
                => \A id \in CatchAll(rules) : ~Precedes(rules[id], rules[fnOut.rule_id])

\* C35 witness: the rule with empty conditions was selected while another
\* enabled rule, later in the order, matches the event as well
C35_Witness ==
    /\ fnOut # UnsetRoute
    /\ fnOut.kind = "match"
    /\ fnOut.rule_id \in CatchAll(rules)
    /\ \E id \in Matching(rules, fnIn.event) :
          /\ rules[id].conditions # << >>
          /\ Precedes(rules[fnOut.rule_id], rules[id])
\* C36: a queue lane whose query raises in get_running_schedulers counts as
\* a lane without active instance: the result holds the instances of the
\* other lanes only, and spawn_scheduler goes on to spawn a singleton whose
\* only active instances are in lanes whose query raised.
RaisingLanes(tables) ==
    { QUEUES[i] : i \in { j \in 1..Len(QUEUES) :
                            \E k \in 1..j : QUEUES[k] \notin DOMAIN tables } }

SeenIn(tables) == UNION { RunningIn(tables[q]) : q \in LaneNames \ RaisingLanes(tables) }

C36_SingletonCheckFailsOpen ==
    [][/\ get_running_schedulers(absurd) = SeenIn(absurd)
       /\ \A p \in Procs :
             LET proc == spawns.proc[p]
                 config == Head(proc.todo)
             IN  (/\ Decides(p)
                  /\ proc.run = "all" => IsEnabled(config)
                  /\ IsSingleton(config)
                  /\ config.task_name \notin SeenIn(absurd))
                    => spawns'.proc[p].pc = "spawn"]_vars

\* C36 witness: a singleton was spawned while an instance of it was active
\* in a lane whose query raised
C36_Witness ==
    \E p \in Procs :
        /\ spawns.proc[p].results # << >>
        /\ spawns.proc[p].results[1] = SpawnResult(TRUE, "", ResendScheduler)
        /\ "email" \in RaisingLanes(absurd)
        /\ Len(absurd["email"]) = 2
        /\ \A i \in 1..2 :
              /\ absurd["email"][i].task_name = ResendScheduler
              /\ absurd["email"][i].state \in ActiveStates
\* C37: the batch of process_pending_events is the pending events at the
\* time of the SELECT, oldest first, at most limit of them; process_event is
\* called on the rows of the batch one after the other, once each; a call
\* counts as processed when it returns status processed and as failed in
\* every other case; when the task returns, processed + failed = total.
Outcome(call) ==
    IF call.pc = "done" /\ call.result.status = "processed" THEN "processed" ELSE "failed"

C37_BatchCountsEveryRowOnce ==
    [][/\ batch.pc = "idle" /\ batch'.pc # "idle"
            => LET rows == batch'.rows
                   ids == PendingIds(events)
               IN  /\ Len(rows) = Min(batch'.limit, Cardinality(ids))
                   /\ \A k \in 1..Len(rows) : rows[k] \in ids
                   /\ \A k, l \in 1..Len(rows) : k < l => rows[k] < rows[l]
                   /\ \A id \in ids : \A k \in 1..Len(rows) : id < rows[k] =>
                         \E l \in 1..Len(rows) : rows[l] = id
       /\ batch.pc # "idle" => batch'.rows = batch.rows
       /\ batch.pc = "loop" /\ batch'.pc = "wait"
            => /\ calls'[1].pc = "fetch"
               /\ calls'[1].event_id = batch.rows[batch.i]
               /\ batch'.i = batch.i
       /\ batch.pc = "wait" /\ batch'.pc # "wait"
            => /\ batch'.i = batch.i + 1
               /\ batch'.processed =
                     batch.processed + IF Outcome(calls[1]) = "processed" THEN 1 ELSE 0
               /\ batch'.failed =
                     batch.failed + IF Outcome(calls[1]) = "processed" THEN 0 ELSE 1
       /\ batch'.processed + batch'.failed = batch'.i - 1
       /\ Len(batch'.results) = batch'.i - 1
       /\ batch'.pc = "done" => batch'.processed + batch'.failed = Len(batch'.rows)]_vars

\* C37 witness: the task has returned a batch of two rows, one counted as
\* processed, the other counted as failed because another worker had
\* processed the event by then
C37_Witness ==
    /\ batch.pc = "done"
    /\ Len(batch.rows) = 2
    /\ batch.processed = 1
    /\ batch.failed = 1
    /\ \E k \in 1..2 : batch.results[k].error = <<"Event already processed: ", "processed">>
\* C38: _log_action_complete sets the error column of the ActionLog row
\* exactly when the handler raised; when the handler returned a result with
\* success false, the row ends failed with a null error, and the error text
\* is in action_output only.
C38_ErrorColumnOnlyOnException ==
    [][\A c \in Callers :
          Step(c, "log_done", "final") =>
              LET out == calls[c].outcome
                  row == actions'[calls[c].action_id]
              IN  /\ row.error # None <=> out.exc # None
                  /\ out.exc # None => row.error = out.exc /\ row.status = "failed"
                  /\ out.exc = None /\ ~out.result.success
                        => /\ row.status = "failed"
                           /\ row.error = None
                           /\ row.action_output.error = out.result.error
                           /\ row.action_output.error # None]_vars

\* C38 witness: the three failures that are returned, not raised, each leave
\* a failed row with a null error: here the spawn that failed
C38_Witness ==
    \E i \in 1..Len(actions) :
        /\ actions[i].status = "failed"
        /\ actions[i].error = None
        /\ actions[i].action_output = SpawnFailed
        /\ events[actions[i].event_id].status = "failed"
====
